---- MODULE Spec2Model ----
(***************************************************************************)
(* Exam-solution dashboard (Gavroche11/final_study): the load, normalize,  *)
(* filter pipeline of data_loader.py and sidebar.py and the session of     *)
(* app.py, as state machines.                                              *)
(*                                                                         *)
(* JSON values are tagged records.  A Python string is a sequence of       *)
(* symbols; a symbol is one character ("1", "x", "B") or a run of          *)
(* characters that no operation of the program looks inside                *)
(* ("override_key").  A float is an integer number of hundredths           *)
(* (0.95 is 95).  Dictionary keys are TLA+ strings.                        *)
(***************************************************************************)
EXTENDS Integers, Sequences, FiniteSets, TLC

VARIABLES
    \* a call of safe_get (data_loader.py): arguments, position, return value
    g_obj, g_path, g_default, g_pc, g_ret,
    \* validate_json_schema then normalize_questions on one parsed document
    l_data, l_pc, l_valid, l_norm,
    \* apply_filters (sidebar.py): the record set, the filters applied to it
    \* (f_A) and then to the result (f_B), and the two results
    f_df, f_pc, f_A, f_B, f_out1, f_out2,
    \* app.main: st.session_state (authenticated, uploaded_files_data,
    \* current_file, df, current_question_idx), the files held by the upload
    \* widget, the files of DATA_DIR, the files the last run tried to load,
    \* and what the last run ended on
    a_authenticated, a_files, a_current_file, a_df, a_idx,
    a_uploader, a_dir, a_tried, a_screen,
    \* the text of the password input when the login form was last submitted
    a_password,
    \* an export: the document the records come from, the record set handed
    \* to the exporter, the exported JSON text and the lines of the markdown
    \* report
    e_data, e_df, e_json, e_md,
    \* a call of search_text_fields: the record, the term, position, return
    \* value
    s_row, s_term, s_pc, s_ret,
    \* render_table (table_view.py): the filtered set and the compact mode it
    \* is called with, st.session_state (page_number, selected_row_in_page),
    \* the last interaction and the value the last run returned
    t_df, t_compact_mode, t_page_number, t_selected_row_in_page, t_event, t_ret

getVars == <<g_obj, g_path, g_default, g_pc, g_ret>>
loadVars == <<l_data, l_pc, l_valid, l_norm>>
filterVars == <<f_df, f_pc, f_A, f_B, f_out1, f_out2>>
sessionVars == <<a_authenticated, a_files, a_current_file, a_df, a_idx>>
appVars == <<sessionVars, a_uploader, a_dir, a_tried, a_screen, a_password>>
exportVars == <<e_data, e_df, e_json, e_md>>
searchVars == <<s_row, s_term, s_pc, s_ret>>
tableVars ==
    <<t_df, t_compact_mode, t_page_number, t_selected_row_in_page, t_event, t_ret>>
vars == <<getVars, loadVars, filterVars, appVars, exportVars, searchVars, tableVars>>

-----------------------------------------------------------------------------
(* JSON values *)

\* a number is held as its count of hundredths: 0.95 is Num(95), 3 is Num(300)
Hundredths(n) == n * 100

Null == [t |-> "null"]
Num(n) == [t |-> "num", n |-> n]
Bool(b) == [t |-> "bool", b |-> b]
Str(s) == [t |-> "str", s |-> s]
List(l) == [t |-> "list", l |-> l]
Dict(d) == [t |-> "dict", d |-> d]

EmptyDict == Dict(<<>>)
Dict1(k, v) == Dict(k :> v)

IsDict(v) == v.t = "dict"
IsList(v) == v.t = "list"
IsNull(v) == v.t = "null"

HasKey(v, k) == k \in DOMAIN v.d

\* dict.get(key, default)
DictGet(v, k, default) == IF HasKey(v, k) THEN v.d[k] ELSE default

-----------------------------------------------------------------------------
(* Bounds *)

\* nesting depth of the objects handed to safe_get
MaxDepth == 3
\* number of segments of a dotted path
MaxPathLen == 3
\* number of questions of a document handed to the validator and normalizer
MaxQuestions == 2
\* number of records of a record set handed to apply_filters
MaxRecords == 3

-----------------------------------------------------------------------------
(* data_loader.safe_get *)

\* str.split('.'): the segments between the dots of a path.  A path is a
\* sequence of symbols, each a dot or a maximal run of other characters, so
\* a segment is one symbol, or "" between two dots or at an end.
RECURSIVE SplitFrom(_, _, _)
SplitFrom(path, i, seg) ==
    IF i > Len(path) THEN <<seg>>
    ELSE IF path[i] = "." THEN <<seg>> \o SplitFrom(path, i + 1, "")
    ELSE SplitFrom(path, i + 1, path[i])

Split(path) == SplitFrom(path, 1, "")

\* the loop of safe_get from position i of keys with the given current value
RECURSIVE SafeGetLoop(_, _, _, _)
SafeGetLoop(current, keys, i, default) ==
    IF i > Len(keys) THEN current
    ELSE IF IsDict(current)
         THEN LET nxt == DictGet(current, keys[i], default)
              IN  IF IsNull(nxt) THEN default
                  ELSE SafeGetLoop(nxt, keys, i + 1, default)
         ELSE default

\* a lookup of the first segment only
SafeGetFirstSegment(obj, path, default) ==
    IF IsDict(obj) THEN DictGet(obj, Split(path)[1], default) ELSE default

safe_get(obj, path, default) == SafeGetLoop(obj, Split(path), 1, default)

-----------------------------------------------------------------------------
(* data_loader.validate_json_schema *)

\* Python's `key in container`: "yes", "no", or "raise" (TypeError) for a
\* value that is no container.  In a string it is a substring test, here
\* the presence of the symbol; in a list, membership of the string.
PyIn(key, v) ==
    CASE v.t = "dict" -> IF HasKey(v, key) THEN "yes" ELSE "no"
      [] v.t = "str"  -> IF \E i \in 1..Len(v.s) : v.s[i] = key THEN "yes" ELSE "no"
      [] v.t = "list" -> IF \E i \in 1..Len(v.l) : v.l[i] = Str(<<key>>) THEN "yes" ELSE "no"
      [] OTHER        -> "raise"

Returned(missing) == [raised |-> FALSE, missing |-> missing]
Raised == [raised |-> TRUE, missing |-> <<>>]

critical_fields == <<"question_no", "answer">>

\* the descriptor f'questions[0].{field}'
FieldDescriptor(field) == <<"questions[0].", field>>

\* the loop over critical_fields on the first question, from field i on
RECURSIVE CheckCriticalFields(_, _, _)
CheckCriticalFields(sample_q, i, missing) ==
    IF i > Len(critical_fields) THEN Returned(missing)
    ELSE LET has == PyIn(critical_fields[i], sample_q)
         IN  IF has = "raise" THEN Raised
             ELSE CheckCriticalFields(sample_q, i + 1,
                      IF has = "no"
                      THEN Append(missing, FieldDescriptor(critical_fields[i]))
                      ELSE missing)

\* from the second rule on: data['questions'] is read (a TypeError on data
\* that is a string or a list, a KeyError on a mapping without the key)
ValidateQuestions(data) ==
    IF ~IsDict(data) \/ ~HasKey(data, "questions") THEN Raised
    ELSE IF ~IsList(data.d["questions"])
         THEN Returned(<<"questions (must be a list)">>)
    ELSE IF Len(data.d["questions"].l) = 0
         THEN Returned(<<"questions (list is empty)">>)
    ELSE CheckCriticalFields(data.d["questions"].l[1], 1, <<>>)

\* the first rule without its return: the later rules run on a document
\* that has no questions
ValidateWithoutFirstReturn(data) ==
    IF PyIn("questions", data) = "raise" THEN Raised
    ELSE ValidateQuestions(data)

validate_json_schema(data) ==
    IF PyIn("questions", data) = "raise" THEN Raised
    ELSE IF PyIn("questions", data) = "no" THEN Returned(<<"questions">>)
    ELSE ValidateQuestions(data)

-----------------------------------------------------------------------------
(* data_loader.normalize_questions *)

DigitSyms == {"0", "1", "2", "3", "4", "5", "6", "7", "8", "9"}

DigitVal(c) ==
    CASE c = "0" -> 0 [] c = "1" -> 1 [] c = "2" -> 2 [] c = "3" -> 3
      [] c = "4" -> 4 [] c = "5" -> 5 [] c = "6" -> 6 [] c = "7" -> 7
      [] c = "8" -> 8 [] c = "9" -> 9

\* a string of decimal digits, the numeric strings of the model
IsDigits(s) == Len(s) > 0 /\ \A i \in 1..Len(s) : s[i] \in DigitSyms

RECURSIVE DigitsValue(_, _, _)
DigitsValue(s, i, acc) ==
    IF i > Len(s) THEN acc ELSE DigitsValue(s, i + 1, acc * 10 + DigitVal(s[i]))

\* pd.to_numeric(..., errors='coerce') on one value: the number (in
\* hundredths; True is 1 and False is 0), or NaN for what does not parse
NaN == [nan |-> TRUE, v |-> 0]
Number(h) == [nan |-> FALSE, v |-> h]

to_numeric(v) ==
    CASE v.t = "num" -> Number(v.n)
      [] v.t = "str" -> IF IsDigits(v.s)
                        THEN Number(Hundredths(DigitsValue(v.s, 1, 0)))
                        ELSE NaN
      [] v.t = "bool" -> Number(Hundredths(IF v.b THEN 1 ELSE 0))
      [] OTHER       -> NaN

\* a fill with 1.0 in the place of 0.0
FillnaOne(x, h) == IF x.nan THEN Hundredths(1) ELSE x.v

\* .fillna(0.0)
fillna(x, h) == IF x.nan THEN h ELSE x.v

EmptyStr == Str(<<>>)
EmptyList == List(<<>>)

\* the row of one question; index is its label in the DataFrame
Row(data, q, index) ==
    [index |-> index,
     question_no |-> DictGet(q, "question_no", EmptyStr),
     depth |-> DictGet(q, "depth", safe_get(data, <<"defaults", ".", "depth">>, EmptyStr)),
     answer_label |-> safe_get(q, <<"answer", ".", "label">>, EmptyStr),
     answer_text |-> safe_get(q, <<"answer", ".", "text">>, EmptyStr),
     provided_key_label |->
         safe_get(q, <<"rethink", ".", "provided_key", ".", "label">>, EmptyStr),
     first_guess |-> safe_get(q, <<"rethink", ".", "first_guess">>, EmptyStr),
     final_decision |-> safe_get(q, <<"rethink", ".", "final_decision">>, EmptyStr),
     override_key |-> safe_get(q, <<"rethink", ".", "override_key">>, Bool(FALSE)),
     mismatch |-> safe_get(q, <<"rethink", ".", "mismatch">>, Bool(FALSE)),
     illegible |-> safe_get(q, <<"flags", ".", "illegible">>, Bool(FALSE)),
     mixed_lang |-> safe_get(q, <<"flags", ".", "mixed_lang">>, Bool(FALSE)),
     confidence |-> fillna(to_numeric(DictGet(q, "confidence", Num(0))), 0),
     runner_up |-> DictGet(q, "runner_up", EmptyStr),
     has_images |->
         safe_get(q, <<"metadata", ".", "input_metadata", ".", "has_images">>, Bool(FALSE)),
     version |-> safe_get(q, <<"metadata", ".", "version">>, EmptyStr),
     why |-> DictGet(q, "why", EmptyList),
     findings |-> DictGet(q, "findings", EmptyList),
     others |-> DictGet(q, "others", EmptyList),
     raw |-> q]

Frame(rows) == [raised |-> FALSE, df |-> rows]
NormalizeRaised == [raised |-> TRUE, df |-> <<>>]

\* q.get(...) raises AttributeError on a question that is no dict; the rows
\* get the labels 0..N-1 of pd.DataFrame(rows)
normalize_questions(data) ==
    LET questions == DictGet(data, "questions", EmptyList).l
    IN  IF \E i \in 1..Len(questions) : ~IsDict(questions[i])
        THEN NormalizeRaised
        ELSE Frame([i \in 1..Len(questions) |-> Row(data, questions[i], i - 1)])

-----------------------------------------------------------------------------
(* data_loader.search_text_fields *)

\* str.lower() on one symbol and on a string
LowerSym(c) ==
    CASE c = "A" -> "a" [] c = "B" -> "b" [] c = "F" -> "f" [] c = "R" -> "r"
      [] OTHER -> c

Lower(s) == [i \in 1..Len(s) |-> LowerSym(s[i])]

\* str(value): the string itself, or the text Python prints for the value
PyStr(v) ==
    CASE v.t = "str"  -> v.s
      [] v.t = "null" -> <<"None">>
      [] v.t = "bool" -> IF v.b THEN <<"True">> ELSE <<"False">>
      [] OTHER        -> <<"<repr>">>

\* `term in text` on strings
Substring(term, text) ==
    \E k \in 0..(Len(text) - Len(term)) :
        \A i \in 1..Len(term) : text[k + i] = term[i]

\* the term against the text as it is written
InText(term, v) == Substring(term, PyStr(v))

InLower(term, v) == Substring(term, Lower(PyStr(v)))

search_text_fields(row, search_term) ==
    LET term == Lower(search_term)
    IN  \/ InLower(term, row.answer_text)
        \/ /\ IsList(row.why)
           /\ \E i \in 1..Len(row.why.l) : InLower(term, row.why.l[i])
        \/ /\ IsList(row.findings)
           /\ \E i \in 1..Len(row.findings.l) : InLower(term, row.findings.l[i])
        \/ /\ IsList(row.others)
           /\ \E i \in 1..Len(row.others.l) :
                 /\ IsDict(row.others.l[i])
                 /\ \/ InLower(term, DictGet(row.others.l[i], "text", EmptyStr))
                    \/ InLower(term, DictGet(row.others.l[i], "reason", EmptyStr))

-----------------------------------------------------------------------------
(* sidebar.build_sidebar: the question range *)

WhiteSyms == {" "}

\* str(q).strip() is not empty
StripTruthy(s) == \E i \in 1..Len(s) : s[i] \notin WhiteSyms

\* int(q) succeeds: numbers, and strings of digits
IntParses(v) == v.t \in {"num", "bool"} \/ (v.t = "str" /\ IsDigits(v.s))

\* int(q): a float is truncated
IntOf(v) ==
    CASE v.t = "num"  -> v.n \div 100
      [] v.t = "bool" -> IF v.b THEN 1 ELSE 0
      [] OTHER        -> DigitsValue(v.s, 1, 0)

Min(S) == CHOOSE x \in S : \A y \in S : x <= y
Max(S) == CHOOSE x \in S : \A y \in S : x >= y

\* the question numbers int() is applied to: those whose str() is not blank
Countable(df) == {i \in 1..Len(df) : StripTruthy(PyStr(df[i].question_no))}

\* int() raises on one of them, or min() on an empty list
NumericRangeFails(df) ==
    \/ \E i \in Countable(df) : ~IntParses(df[i].question_no)
    \/ Countable(df) = {}

\* min_value and max_value of the range slider
SliderBounds(df) ==
    IF Len(df) = 0 THEN <<0, 0>>
    ELSE IF NumericRangeFails(df) THEN <<0, Len(df) - 1>>
    ELSE LET numeric_questions == {IntOf(df[i].question_no) : i \in Countable(df)}
         IN  <<Min(numeric_questions), Max(numeric_questions)>>

All == Str(<<"All">>)

\* the dictionary build_sidebar returns before the user touches a control
InitialFilters(df) ==
    [question_range |-> SliderBounds(df),
     has_images |-> "All",
     final_decision |-> {All},
     illegible |-> "All",
     mixed_lang |-> "All",
     depth |-> {},
     confidence_range |-> <<0, 100>>,
     search_term |-> <<>>]

-----------------------------------------------------------------------------
(* sidebar.apply_filters *)

\* df.iloc[lo:hi + 1]
Iloc(df, lo, hi) ==
    LET first == IF lo < 0 THEN 1 ELSE lo + 1
        last  == IF hi + 1 > Len(df) THEN Len(df) ELSE hi + 1
    IN  IF first > last THEN <<>> ELSE SubSeq(df, first, last)

\* as errors='raise' would: an exception when a question_no does not parse
NumericFilterRaisesOnNaN(filtered) ==
    \E i \in 1..Len(filtered) : to_numeric(filtered[i].question_no).nan

\* an exception inside the try block.  pd.to_numeric(errors='coerce') turns
\* what does not parse into NaN and does not raise, and the rows of a
\* normalized frame all have the question_no column.
NumericFilterRaises(filtered) == FALSE

\* (q_num >= q_range[0]) & (q_num <= q_range[1]); a comparison with NaN is
\* False
InQuestionRangeExclusive(q_num, q_range) ==
    /\ ~q_num.nan
    /\ q_num.v >= Hundredths(q_range[1])
    /\ q_num.v < Hundredths(q_range[2])

InQuestionRange(q_num, q_range) ==
    /\ ~q_num.nan
    /\ q_num.v >= Hundredths(q_range[1])
    /\ q_num.v <= Hundredths(q_range[2])

\* `filtered = df`: the name is bound to the caller's frame itself
SameFrame(df) == [input |-> df, filtered |-> df, same_object |-> TRUE]

\* filtered = df.copy(): the frames of the call are the caller's df and a
\* new frame with the same rows, to which `filtered` refers
CopyOfFrame(df) == [input |-> df, filtered |-> df, same_object |-> FALSE]

\* filtered['_q_num'] = pd.to_numeric(filtered['question_no'],
\* errors='coerce'): the helper column is set on the frame `filtered`
\* refers to
AssignQNum(call) ==
    LET rows == [i \in 1..Len(call.filtered) |->
                    ("_q_num" :> to_numeric(call.filtered[i].question_no))
                        @@ call.filtered[i]]
    IN  [input |-> IF call.same_object THEN rows ELSE call.input,
         filtered |-> rows,
         same_object |-> call.same_object]

\* filtered.drop(columns=['_q_num'])
DropQNum(rows) ==
    [i \in 1..Len(rows) |-> [c \in DOMAIN rows[i] \ {"_q_num"} |-> rows[i][c]]]

\* the try block and its except: a selection, a drop and an iloc each give
\* a new frame
QuestionRangeFilter(call, q_range) ==
    IF NumericFilterRaises(call.filtered)
    THEN [input |-> call.input,
          filtered |-> Iloc(call.filtered, q_range[1], q_range[2]),
          same_object |-> FALSE]
    ELSE LET assigned == AssignQNum(call)
             Keep(row) == InQuestionRange(row["_q_num"], q_range)
         IN  [input |-> assigned.input,
              filtered |-> DropQNum(SelectSeq(assigned.filtered, Keep)),
              same_object |-> FALSE]

\* a Yes/No radio against a boolean column: filtered[filtered[column] == val]
TriStateFilter(filtered, choice, column) ==
    IF choice # "All"
    THEN LET Keep(row) == row[column] = Bool(choice = "Yes")
         IN  SelectSeq(filtered, Keep)
    ELSE filtered

\* one block of matches per selected decision, concatenated
DecisionFilterConcat(filtered, final_decision) ==
    IF All \notin final_decision /\ Cardinality(final_decision) > 0
    THEN LET KeepAgree(row) ==
                 row.final_decision \in final_decision
                 /\ row.final_decision # Str(<<"override_key">>)
             KeepOverride(row) ==
                 row.final_decision \in final_decision
                 /\ row.final_decision = Str(<<"override_key">>)
         IN  SelectSeq(filtered, KeepAgree) \o SelectSeq(filtered, KeepOverride)
    ELSE filtered

\* "All" lifts the constraint only when it is selected alone
DecisionFilterAllAlone(filtered, final_decision) ==
    IF final_decision # {All} /\ Cardinality(final_decision) > 0
    THEN LET Keep(row) == row.final_decision \in final_decision
         IN  SelectSeq(filtered, Keep)
    ELSE filtered

DecisionFilter(filtered, final_decision) ==
    IF All \notin final_decision /\ Cardinality(final_decision) > 0
    THEN LET Keep(row) == row.final_decision \in final_decision
         IN  SelectSeq(filtered, Keep)
    ELSE filtered

DepthFilter(filtered, depth) ==
    IF Cardinality(depth) > 0
    THEN LET Keep(row) == row.depth \in depth
         IN  SelectSeq(filtered, Keep)
    ELSE filtered

ConfidenceFilter(filtered, conf_range) ==
    LET Keep(row) ==
            row.confidence >= conf_range[1] /\ row.confidence <= conf_range[2]
    IN  SelectSeq(filtered, Keep)

SearchFilter(filtered, search_term) ==
    IF StripTruthy(search_term)
    THEN LET Keep(row) == search_text_fields(row, search_term)
         IN  SelectSeq(filtered, Keep)
    ELSE filtered

\* the caller's frame after apply_filters(df, filters): the statements
\* after the range filter bind `filtered` to new frames
InputAfter(df, filters) ==
    QuestionRangeFilter(CopyOfFrame(df), filters.question_range).input

apply_filters(df, filters) ==
    LET f1 == QuestionRangeFilter(CopyOfFrame(df), filters.question_range).filtered
        f2 == TriStateFilter(f1, filters.has_images, "has_images")
        f3 == DecisionFilter(f2, filters.final_decision)
        f4 == TriStateFilter(f3, filters.illegible, "illegible")
        f5 == TriStateFilter(f4, filters.mixed_lang, "mixed_lang")
        f6 == DepthFilter(f5, filters.depth)
        f7 == ConfidenceFilter(f6, filters.confidence_range)
    IN  SearchFilter(f7, filters.search_term)

-----------------------------------------------------------------------------
(* json.dumps and json.loads.  The text is a sequence of symbols, one per
   character or literal (null, true, false) and one per number; the line
   breaks and indentation of indent=2 are one symbol each. *)

Sym(c) == [num |-> FALSE, c |-> c, n |-> 0]
NumLit(n) == [num |-> TRUE, c |-> "", n |-> n]

IsSym(tok, c) == ~tok.num /\ tok.c = c

Indent == Sym("\n")

\* the characters json.dumps escapes inside a string
EscapedSyms == {"\"", "\\"}

RECURSIVE DumpChars(_, _)
DumpChars(s, i) ==
    IF i > Len(s) THEN <<>>
    ELSE (IF s[i] \in EscapedSyms THEN <<Sym("\\"), Sym(s[i])>> ELSE <<Sym(s[i])>>)
         \o DumpChars(s, i + 1)

DumpString(s) == <<Sym("\"")>> \o DumpChars(s, 1) \o <<Sym("\"")>>

\* the keys of a dict, one after the other
RECURSIVE KeysOf(_)
KeysOf(S) ==
    IF S = {} THEN <<>>
    ELSE LET k == CHOOSE k \in S : TRUE IN <<k>> \o KeysOf(S \ {k})

RECURSIVE Dumps(_)
RECURSIVE DumpItems(_, _)
RECURSIVE DumpMembers(_, _, _)

\* the elements of a list from the i-th on, separated by commas
DumpItems(l, i) ==
    IF i > Len(l) THEN <<>>
    ELSE (IF i > 1 THEN <<Sym(","), Indent>> ELSE <<>>)
         \o Dumps(l[i]) \o DumpItems(l, i + 1)

\* the "key": value members of a dict, for the keys from the i-th on
DumpMembers(d, keys, i) ==
    IF i > Len(keys) THEN <<>>
    ELSE (IF i > 1 THEN <<Sym(","), Indent>> ELSE <<>>)
         \o DumpString(<<keys[i]>>) \o <<Sym(":"), Sym(" ")>>
         \o Dumps(d[keys[i]]) \o DumpMembers(d, keys, i + 1)

Dumps(v) ==
    CASE v.t = "null" -> <<Sym("null")>>
      [] v.t = "bool" -> <<Sym(IF v.b THEN "true" ELSE "false")>>
      [] v.t = "num"  -> <<NumLit(v.n)>>
      [] v.t = "str"  -> DumpString(v.s)
      [] v.t = "list" ->
             IF Len(v.l) = 0 THEN <<Sym("["), Sym("]")>>
             ELSE <<Sym("["), Indent>> \o DumpItems(v.l, 1) \o <<Indent, Sym("]")>>
      [] v.t = "dict" ->
             IF DOMAIN v.d = {} THEN <<Sym("{"), Sym("}")>>
             ELSE <<Sym("{"), Indent>> \o DumpMembers(v.d, KeysOf(DOMAIN v.d), 1)
                  \o <<Indent, Sym("}")>>

\* a parsed value and the position after it
Parsed(v, i) == [v |-> v, i |-> i]

WhitespaceSyms == {" ", "\n"}

\* the first position from i on that holds no whitespace
RECURSIVE SkipWhitespace(_, _)
SkipWhitespace(text, i) ==
    IF i <= Len(text) /\ ~text[i].num /\ text[i].c \in WhitespaceSyms
    THEN SkipWhitespace(text, i + 1)
    ELSE i

\* the characters of a string up to its closing quote, from position i
RECURSIVE LoadChars(_, _, _)
LoadChars(text, i, acc) ==
    IF IsSym(text[i], "\"") THEN Parsed(acc, i + 1)
    ELSE IF IsSym(text[i], "\\") THEN LoadChars(text, i + 2, Append(acc, text[i + 1].c))
    ELSE LoadChars(text, i + 1, Append(acc, text[i].c))

RECURSIVE LoadValue(_, _)
RECURSIVE LoadItems(_, _, _)
RECURSIVE LoadMembers(_, _, _)

\* the elements of a list whose "[" is read, up to its "]"
LoadItems(text, i, acc) ==
    LET j == SkipWhitespace(text, i)
    IN  IF IsSym(text[j], "]") THEN Parsed(List(acc), j + 1)
        ELSE IF IsSym(text[j], ",") THEN LoadItems(text, j + 1, acc)
        ELSE LET item == LoadValue(text, j)
             IN  LoadItems(text, item.i, Append(acc, item.v))

\* the members of a dict whose "{" is read, up to its "}"
LoadMembers(text, i, acc) ==
    LET j == SkipWhitespace(text, i)
    IN  IF IsSym(text[j], "}") THEN Parsed(Dict(acc), j + 1)
        ELSE IF IsSym(text[j], ",") THEN LoadMembers(text, j + 1, acc)
        ELSE LET key == LoadChars(text, j + 1, <<>>)
                 colon == SkipWhitespace(text, key.i)
                 value == LoadValue(text, colon + 1)
             IN  LoadMembers(text, value.i, (key.v[1] :> value.v) @@ acc)

LoadValue(text, i) ==
    LET j == SkipWhitespace(text, i)
        tok == text[j]
    IN  IF tok.num THEN Parsed(Num(tok.n), j + 1)
        ELSE CASE tok.c = "null"  -> Parsed(Null, j + 1)
               [] tok.c = "true"  -> Parsed(Bool(TRUE), j + 1)
               [] tok.c = "false" -> Parsed(Bool(FALSE), j + 1)
               [] tok.c = "\""    -> LET s == LoadChars(text, j + 1, <<>>)
                                     IN  Parsed(Str(s.v), s.i)
               [] tok.c = "["     -> LoadItems(text, j + 1, <<>>)
               [] tok.c = "{"     -> LoadMembers(text, j + 1, <<>>)

Loads(text) == LoadValue(text, 1).v

-----------------------------------------------------------------------------
(* exporters.export_to_json *)

\* Python's truth value of a JSON value
Truthy(v) ==
    CASE v.t = "null" -> FALSE
      [] v.t = "bool" -> v.b
      [] v.t = "num"  -> v.n # 0
      [] v.t = "str"  -> Len(v.s) > 0
      [] v.t = "list" -> Len(v.l) > 0
      [] v.t = "dict" -> DOMAIN v.d # {}

\* the loop over df.iterrows(): the raw question of a row is appended
\* if raw_data
RawQuestions(df) ==
    LET Raw(i) == df[i].raw
        RECURSIVE Collect(_, _)
        Collect(i, acc) ==
            IF i > Len(df) THEN acc
            ELSE Collect(i + 1, IF Truthy(Raw(i)) THEN Append(acc, Raw(i)) ELSE acc)
    IN  Collect(1, <<>>)

\* the text export_to_json returns at the time `now`
export_to_json(df, now) ==
    LET raw_questions == RawQuestions(df)
        export_data ==
            Dict([questions |-> List(raw_questions),
                  metadata |-> Dict([total_exported |->
                                         Num(Hundredths(Len(raw_questions))),
                                     export_timestamp |-> Str(<<now>>)])])
    IN  Dumps(export_data)

-----------------------------------------------------------------------------
(* table_view.format_label and exporters.export_to_markdown.  The report
   is the list md_lines: one entry per appended string, with the template
   it is formatted from (kind), the number and the two texts that are
   interpolated into it. *)

\* the circled digits, written (1) to (5)
KOREAN_LABELS ==
    ("1" :> "(1)") @@ ("2" :> "(2)") @@ ("3" :> "(3)") @@ ("4" :> "(4)") @@ ("5" :> "(5)")

format_label(label, show_korean) ==
    IF ~Truthy(label) THEN <<>>
    ELSE IF show_korean /\ PyStr(label) \in {<<l>> : l \in DOMAIN KOREAN_LABELS}
         THEN <<KOREAN_LABELS[PyStr(label)[1]]>>
         ELSE PyStr(label)

Line(kind, n, text, more) == [kind |-> kind, n |-> n, text |-> text, more |-> more]

\* the four lines before the sections
ReportHead(df, now) ==
    <<Line("# Exam Solution Review Packet", 0, <<>>, <<>>),
      Line("**Generated:**", 0, <<now>>, <<>>),
      Line("**Total Questions:**", Len(df), <<>>, <<>>),
      Line("---", 0, <<>>, <<>>)>>

\* list[:3], where the report takes list[:2]
FirstThree(list) == SubSeq(list, 1, Min({3, Len(list)}))

\* list[:2]
FirstTwo(list) == SubSeq(list, 1, Min({2, Len(list)}))

\* for i, reason in enumerate(why_list[:2], 1)
WhyLines(row) ==
    IF Truthy(row.why) /\ IsList(row.why)
    THEN LET reasons == FirstTwo(row.why.l)
         IN  <<Line("### Why", 0, <<>>, <<>>)>>
             \o [i \in 1..Len(reasons) |-> Line("{i}. {reason}", i, PyStr(reasons[i]), <<>>)]
    ELSE <<>>

\* the body of the loop over others_list[:2]
OptionLines(other, show_korean) ==
    IF IsDict(other)
    THEN LET label == format_label(DictGet(other, "label", EmptyStr), show_korean)
             text == DictGet(other, "text", EmptyStr)
             reason == DictGet(other, "reason", EmptyStr)
         IN  <<Line("**Option {label}:** {text}", 0, label, PyStr(text))>>
             \o (IF Truthy(reason)
                 THEN <<Line("*Reason:* {reason}", 0, PyStr(reason), <<>>)>>
                 ELSE <<>>)
    ELSE <<>>

RECURSIVE OptionsFrom(_, _, _)
OptionsFrom(others, i, show_korean) ==
    IF i > Len(others) THEN <<>>
    ELSE OptionLines(others[i], show_korean) \o OptionsFrom(others, i + 1, show_korean)

OthersLines(row, show_korean) ==
    IF Truthy(row.others) /\ IsList(row.others)
    THEN <<Line("### Other Options", 0, <<>>, <<>>)>>
         \o OptionsFrom(FirstTwo(row.others.l), 1, show_korean)
    ELSE <<>>

\* the flags that are set, joined
FlagsLine(row) ==
    LET flags == (IF Truthy(row.illegible) THEN <<"Illegible">> ELSE <<>>)
                 \o (IF Truthy(row.mixed_lang) THEN <<"Mixed Language">> ELSE <<>>)
                 \o (IF Truthy(row.has_images) THEN <<"Has Images">> ELSE <<>>)
    IN  IF flags # <<>> THEN <<Line("**Flags:**", 0, flags, <<>>)>> ELSE <<>>

\* the lines of the section of one row; idx counts the rows from 1.  The
\* confidence is printed in percent with one decimal, n is its tenths.
SectionLines(row, idx, show_korean) ==
    <<Line("## {idx}. Question {question_no}", idx, PyStr(row.question_no), <<>>),
      Line("**Depth:**", 0, PyStr(row.depth), <<>>),
      Line("**Confidence:**", row.confidence * 10, <<>>, <<>>),
      Line("**Decision:**", 0, PyStr(row.final_decision), <<>>),
      Line("### Chosen Answer:", 0, format_label(row.answer_label, show_korean), <<>>),
      Line("{answer_text}", 0, PyStr(row.answer_text), <<>>)>>
    \o (IF Truthy(row.provided_key_label)
        THEN <<Line("**Provided Key:**", 0,
                    format_label(row.provided_key_label, show_korean), <<>>)>>
        ELSE <<>>)
    \o WhyLines(row)
    \o OthersLines(row, show_korean)
    \o FlagsLine(row)
    \o <<Line("---", 0, <<>>, <<>>)>>

\* for idx, (_, row) in enumerate(df.iterrows(), 1), from the i-th row on
RECURSIVE SectionsFrom(_, _, _)
SectionsFrom(df, i, show_korean) ==
    IF i > Len(df) THEN <<>>
    ELSE SectionLines(df[i], i, show_korean) \o SectionsFrom(df, i + 1, show_korean)

export_to_markdown(df, show_korean, now) ==
    ReportHead(df, now) \o SectionsFrom(df, 1, show_korean)

-----------------------------------------------------------------------------
(* table_view.render_table.  Streamlit runs it from the top on every
   interaction; st.rerun() ends the run and starts another. *)

items_per_page(compact_mode) == IF ~compact_mode THEN 10 ELSE 20

\* (len(df) - 1) // items_per_page + 1
total_pages(df, compact_mode) == (Len(df) - 1) \div items_per_page(compact_mode) + 1

\* page_df = df.iloc[start_idx:end_idx]: empty when start_idx is not below
\* end_idx
PageOf(df, page_number, compact_mode) ==
    LET start_idx == page_number * items_per_page(compact_mode)
        end_idx == Min({start_idx + items_per_page(compact_mode), Len(df)})
    IN  IF start_idx < end_idx THEN SubSeq(df, start_idx + 1, end_idx) ELSE <<>>

\* what a run leaves when it ends in st.rerun() or goes on
Rerun(session) == [session |-> session, rerun |-> TRUE]
GoOn(session) == [session |-> session, rerun |-> FALSE]

nav_up(session) ==
    IF session.selected_row_in_page > 0
    THEN Rerun([session EXCEPT !.selected_row_in_page = @ - 1])
    ELSE GoOn(session)

nav_down(session, page_size) ==
    IF session.selected_row_in_page < page_size - 1
    THEN Rerun([session EXCEPT !.selected_row_in_page = @ + 1])
    ELSE GoOn(session)

\* a step to the previous page that selects the last row of the page left
NavPrevByPageSize(session, page_size, compact_mode) ==
    IF session.selected_row_in_page > 0
    THEN Rerun([session EXCEPT !.selected_row_in_page = @ - 1])
    ELSE IF session.page_number > 0
         THEN Rerun([page_number |-> session.page_number - 1,
                     selected_row_in_page |-> page_size - 1])
         ELSE Rerun(session)

nav_prev(session, page_size, compact_mode) ==
    IF session.selected_row_in_page > 0
    THEN Rerun([session EXCEPT !.selected_row_in_page = @ - 1])
    ELSE IF session.page_number > 0
         THEN Rerun([page_number |-> session.page_number - 1,
                     selected_row_in_page |-> items_per_page(compact_mode) - 1])
         ELSE Rerun(session)

nav_next(session, page_size, pages) ==
    IF session.selected_row_in_page < page_size - 1
    THEN Rerun([session EXCEPT !.selected_row_in_page = @ + 1])
    ELSE IF session.page_number < pages - 1
         THEN Rerun([page_number |-> session.page_number + 1,
                     selected_row_in_page |-> 0])
         ELSE Rerun(session)

\* the "◀ Page" and "Page ▶" buttons
page_prev(session) ==
    Rerun([page_number |-> session.page_number - 1, selected_row_in_page |-> 0])

page_next(session) ==
    Rerun([page_number |-> session.page_number + 1, selected_row_in_page |-> 0])

Buttons == {"nav_up", "nav_down", "nav_prev", "nav_next", "page_prev", "page_next"}

\* the button that returns True in this run
Clicked(session, df, compact_mode, button) ==
    LET page_size == Len(PageOf(df, session.page_number, compact_mode))
    IN  CASE button = "nav_up" -> nav_up(session)
          [] button = "nav_down" -> nav_down(session, page_size)
          [] button = "nav_prev" -> nav_prev(session, page_size, compact_mode)
          [] button = "nav_next" ->
                nav_next(session, page_size, total_pages(df, compact_mode))
          [] button = "page_prev" -> page_prev(session)
          [] button = "page_next" -> page_next(session)
          [] OTHER -> GoOn(session)

\* a button is drawn enabled
Enabled(session, df, compact_mode, button) ==
    CASE button = "page_prev" -> ~(session.page_number = 0)
      [] button = "page_next" ->
            ~(session.page_number >= total_pages(df, compact_mode) - 1)
      [] OTHER -> TRUE

\* the return value: None, or an index label
NoIndex == [none |-> TRUE, label |-> 0]
IndexLabel(label) == [none |-> FALSE, label |-> label]

\* list[i] in Python, a negative i counting from the end
PyItem(list, i) == IF i >= 0 THEN list[i + 1] ELSE list[Len(list) + i + 1]

\* df[df['question_no'] == selected_q].index[0]
FirstIndexOf(df, selected_q) ==
    LET matches == {i \in 1..Len(df) : df[i].question_no = selected_q}
    IN  df[Min(matches)].index

\* the end of a run: selected_row_in_page is brought below page_size and
\* the index of the selected question is returned
Selection(session, df, compact_mode) ==
    LET page_df == PageOf(df, session.page_number, compact_mode)
        page_size == Len(page_df)
        selected_row_in_page ==
            IF session.selected_row_in_page >= page_size
            THEN page_size - 1
            ELSE session.selected_row_in_page
        current_selection_idx == Min({selected_row_in_page, page_size - 1})
    IN  [session |-> [session EXCEPT !.selected_row_in_page = selected_row_in_page],
         ret |-> IF page_size > 0
                 THEN IndexLabel(FirstIndexOf(df, PyItem(page_df, current_selection_idx).question_no))
                 ELSE NoIndex]

\* render_table(df, compact_mode=compact_mode) with `button` pressed, and
\* the run that follows a st.rerun(), in which no button is pressed
RECURSIVE render_table(_, _, _, _)
render_table(session, df, compact_mode, button) ==
    IF Len(df) = 0 THEN [session |-> session, ret |-> NoIndex]
    ELSE LET click == Clicked(session, df, compact_mode, button)
         IN  IF click.rerun
             THEN render_table(click.session, df, compact_mode, "none")
             ELSE Selection(click.session, df, compact_mode)

-----------------------------------------------------------------------------
(* Inputs of the safe_get specification *)

GetKeys == {"a", "b"}

Leaves == {Null, Num(Hundredths(5)), Str(<<>>)}

\* leaves, the empty mapping and one-key mappings nested to the given depth
RECURSIVE JsonValues(_)
JsonValues(depth) ==
    IF depth = 0 THEN Leaves
    ELSE Leaves \cup {EmptyDict}
         \cup {Dict1(k, v) : k \in GetKeys, v \in JsonValues(depth - 1)}

\* "a.b.c" from <<"a","b","c">>
RECURSIVE Join(_)
Join(keys) ==
    IF Len(keys) = 0 THEN <<>>
    ELSE IF Len(keys) = 1 THEN <<keys[1]>>
    ELSE <<keys[1], ".">> \o Join(Tail(keys))

KeySeqs == UNION {[1..n -> GetKeys] : n \in 1..MaxPathLen}

GetPaths == {Join(ks) : ks \in KeySeqs}

GetDefaults == JsonValues(1)

GetIdle ==
    /\ g_obj = Null
    /\ g_path = <<>>
    /\ g_default = Null
    /\ g_pc = "idle"
    /\ g_ret = Null

FilterIdle ==
    /\ f_df = <<>>
    /\ f_pc = "idle"
    /\ f_A = InitialFilters(<<>>)
    /\ f_B = InitialFilters(<<>>)
    /\ f_out1 = <<>>
    /\ f_out2 = <<>>

LoadIdle ==
    /\ l_data = Null
    /\ l_pc = "idle"
    /\ l_valid = Returned(<<>>)
    /\ l_norm = Frame(<<>>)

\* Python's None in st.session_state.current_file
PyNone == "None"

\* st.session_state.df: None, or a DataFrame
NoFrame == [none |-> TRUE, rows |-> <<>>]
DataFrame(rows) == [none |-> FALSE, rows |-> rows]

\* no entry in uploaded_files_data
NoFiles == [name \in {} |-> NoFrame]

\* st.session_state as main initializes it, before a login form is shown
AppIdle ==
    /\ a_authenticated = FALSE
    /\ a_files = NoFiles
    /\ a_current_file = PyNone
    /\ a_df = NoFrame
    /\ a_idx = 0
    /\ a_uploader = <<>>
    /\ a_dir = <<>>
    /\ a_tried = {}
    /\ a_screen = "none"
    /\ a_password = PyNone

\* nothing exported
ExportIdle ==
    /\ e_data = Null
    /\ e_df = <<>>
    /\ e_json = <<>>
    /\ e_md = <<>>

SearchIdle ==
    /\ s_row = Null
    /\ s_term = <<>>
    /\ s_pc = "idle"
    /\ s_ret = FALSE

TableIdle ==
    /\ t_df = <<>>
    /\ t_compact_mode = FALSE
    /\ t_page_number = 0
    /\ t_selected_row_in_page = 0
    /\ t_event = "none"
    /\ t_ret = PyNone

-----------------------------------------------------------------------------
(* Inputs of the validator and normalizer specification *)

\* a key that the mapping does not have
Absent == [t |-> "absent"]
Opt(k, v) == IF v = Absent THEN <<>> ELSE (k :> v)

Answer(label, text) == Dict([label |-> Str(<<label>>), text |-> Str(<<text>>)])

\* questions: mappings with or without question_no, answer and confidence,
\* and two values that are no mapping
LoadQuestions ==
    {Dict(Opt("question_no", qn) @@ Opt("answer", an) @@ Opt("confidence", cf)) :
        qn \in {Absent, Str(<<"1">>), Str(<<"x">>)},
        an \in {Absent, Answer("A", "text")},
        cf \in {Absent, Num(95), Str(<<"bad">>)}}
    \cup {Null, Str(<<"oops">>)}

QuestionLists == UNION {[1..n -> LoadQuestions] : n \in 0..MaxQuestions}

LoadDocuments ==
    {Dict(Opt("questions", qs) @@ Opt("defaults", df)) :
        qs \in {Absent, Null, EmptyDict, Str(<<"questions">>)}
               \cup {List(l) : l \in QuestionLists},
        df \in {Absent, Dict1("depth", Str(<<"deep">>))}}

LoadInit ==
    /\ l_data \in LoadDocuments
    /\ l_pc = "parsed"
    /\ l_valid = Returned(<<>>)
    /\ l_norm = Frame(<<>>)
    /\ GetIdle
    /\ FilterIdle
    /\ AppIdle
    /\ ExportIdle
    /\ SearchIdle
    /\ TableIdle

\* missing_fields = validate_json_schema(data)
Validate ==
    /\ l_pc = "parsed"
    /\ l_valid' = validate_json_schema(l_data)
    /\ l_pc' = "validated"
    /\ UNCHANGED <<l_data, l_norm, getVars, filterVars, appVars, exportVars, searchVars, tableVars>>

Accepted(valid) == ~valid.raised /\ valid.missing = <<>>

\* if not missing_fields: ... normalize_questions(data)
Normalize ==
    /\ l_pc = "validated"
    /\ Accepted(l_valid)
    /\ l_norm' = normalize_questions(l_data)
    /\ l_pc' = "normalized"
    /\ UNCHANGED <<l_data, l_valid, getVars, filterVars, appVars, exportVars, searchVars, tableVars>>

LoadNext == Validate \/ Normalize

SpecLoad == LoadInit /\ [][LoadNext]_vars

GetInit ==
    /\ g_obj \in JsonValues(MaxDepth)
    /\ g_path \in GetPaths
    /\ g_default \in GetDefaults
    /\ g_pc = "call"
    /\ g_ret = Null
    /\ LoadIdle
    /\ FilterIdle
    /\ AppIdle
    /\ ExportIdle
    /\ SearchIdle
    /\ TableIdle

CallSafeGet ==
    /\ g_pc = "call"
    /\ g_ret' = safe_get(g_obj, g_path, g_default)
    /\ g_pc' = "returned"
    /\ UNCHANGED <<g_obj, g_path, g_default, loadVars, filterVars, appVars, exportVars, searchVars, tableVars>>

GetNext == CallSafeGet

SpecGet == GetInit /\ [][GetNext]_vars

-----------------------------------------------------------------------------
(* Inputs of the apply_filters specification *)

Flags(illegible, mixed_lang) ==
    Dict([illegible |-> Bool(illegible), mixed_lang |-> Bool(mixed_lang)])
Rethink(decision) == Dict1("final_decision", Str(<<decision>>))
Metadata(has_images) ==
    Dict1("input_metadata", Dict1("has_images", Bool(has_images)))

\* three kinds of question: an overridden one with every field, an agreed
\* one that takes the document's depth, and one with little more than the
\* required fields
QuestionKinds ==
    {("answer" :> Dict([label |-> Str(<<"A">>), text |-> Str(<<"B", "a">>)]))
        @@ ("rethink" :> Rethink("override_key"))
        @@ ("flags" :> Flags(FALSE, TRUE))
        @@ ("confidence" :> Num(95))
        @@ ("metadata" :> Metadata(TRUE))
        @@ ("depth" :> Str(<<"deep">>))
        @@ ("why" :> List(<<Str(<<"r">>)>>)),
     ("answer" :> Dict([label |-> Str(<<"B">>), text |-> Str(<<"a">>)]))
        @@ ("rethink" :> Rethink("agree_with_key"))
        @@ ("flags" :> Flags(TRUE, FALSE))
        @@ ("confidence" :> Num(50))
        @@ ("metadata" :> Metadata(TRUE))
        @@ ("others" :> List(<<Dict([text |-> Str(<<"F", "B">>), reason |-> EmptyStr])>>)),
     ("answer" :> Dict([label |-> Str(<<"A">>), text |-> Str(<<"a">>)]))
        @@ ("confidence" :> Num(95))}

\* question numbers: numeric strings and a string that is no number
QuestionNos == {Str(<<"1">>), Str(<<"2">>), Str(<<"x">>)}

FilterQuestions ==
    {Dict(("question_no" :> qn) @@ kind) : qn \in QuestionNos, kind \in QuestionKinds}

FilterDocument(questions) ==
    Dict([questions |-> List(questions),
          defaults |-> Dict1("depth", Str(<<"basic">>))])

\* the question lists of the documents: up to MaxRecords different questions
FilterQuestionLists ==
    {qs \in UNION {[1..n -> FilterQuestions] : n \in 1..MaxRecords} :
        \A i, j \in 1..Len(qs) : qs[i] = qs[j] => i = j}

FilterFrames ==
    {normalize_questions(FilterDocument(qs)).df : qs \in FilterQuestionLists}

\* what the sidebar's controls offer for a record set
RangeChoices(df) ==
    {<<lo, hi>> : lo \in SliderBounds(df)[1]..SliderBounds(df)[2],
                  hi \in SliderBounds(df)[1]..SliderBounds(df)[2]}
    \cap {r \in Int \X Int : r[1] <= r[2]}

NonEmptyStrings(S) == {v \in S : v.t = "str" /\ Len(v.s) > 0}
DecisionOptions(df) == NonEmptyStrings({df[i].final_decision : i \in 1..Len(df)})
DepthOptions(df) == NonEmptyStrings({df[i].depth : i \in 1..Len(df)})

ConfidenceChoices == {<<90, 100>>, <<0, 50>>}
SearchChoices == {<<"b">>, <<"R">>}

\* the predicates, in the order apply_filters applies them
Predicates ==
    <<"question_range", "has_images", "final_decision", "illegible",
      "mixed_lang", "depth", "confidence_range", "search_term">>

PredicateNo(p) == CHOOSE i \in 1..Len(Predicates) : Predicates[i] = p

\* the predicates a filters dictionary activates on a record set
ActivePredicates(filters, df) ==
    {p \in {Predicates[i] : i \in 1..Len(Predicates)} :
        CASE p = "question_range" -> filters.question_range # SliderBounds(df)
          [] p = "final_decision" ->
                 All \notin filters.final_decision /\ filters.final_decision # {}
          [] p = "depth" -> filters.depth # {}
          [] p = "confidence_range" -> filters.confidence_range # <<0, 100>>
          [] p = "search_term" -> StripTruthy(filters.search_term)
          [] OTHER -> filters[p] # "All"}

\* the values a control offers apart from its initial one
ControlChoices(df, p) ==
    CASE p = "question_range" -> RangeChoices(df) \ {SliderBounds(df)}
      [] p = "final_decision" -> (SUBSET DecisionOptions(df)) \ {{}}
      [] p = "depth" -> (SUBSET DepthOptions(df)) \ {{}}
      [] p = "confidence_range" -> ConfidenceChoices
      [] p = "search_term" -> SearchChoices
      [] OTHER -> {"Yes", "No"}

\* the filters with control p moved off its initial value
FiltersFor(df, p) ==
    {[InitialFilters(df) EXCEPT ![p] = c] : c \in ControlChoices(df, p)}

\* the filters with one control moved off its initial value
SingleFilters(df) == UNION {FiltersFor(df, Predicates[i]) : i \in 1..Len(Predicates)}

\* filters that activate nothing: the initial ones, an emptied decision
\* selection, "All" selected together with a decision
InactiveFilters(df) ==
    LET init == InitialFilters(df)
    IN  {init, [init EXCEPT !.final_decision = {}]}
        \cup {[init EXCEPT !.final_decision = {All, d}] : d \in DecisionOptions(df)}

FilterInit ==
    /\ f_df \in FilterFrames
    /\ f_pc = "loaded"
    /\ f_A = InitialFilters(<<>>)
    /\ f_B = InitialFilters(<<>>)
    /\ f_out1 = <<>>
    /\ f_out2 = <<>>
    /\ GetIdle
    /\ LoadIdle
    /\ AppIdle
    /\ ExportIdle
    /\ SearchIdle
    /\ TableIdle

\* filtered = apply_filters(df, filters)
ApplyFilters ==
    /\ f_pc = "loaded"
    /\ \E filters \in SingleFilters(f_df) \cup InactiveFilters(f_df) :
          /\ f_A' = filters
          /\ f_out1' = apply_filters(f_df, filters)
          /\ f_df' = InputAfter(f_df, filters)
    /\ f_pc' = "filtered"
    /\ UNCHANGED <<f_B, f_out2, getVars, loadVars, appVars, exportVars, searchVars, tableVars>>

\* apply_filters(filtered, filters) with filters that activate another
\* predicate, one that apply_filters applies later
ApplyFiltersAgain ==
    /\ f_pc = "filtered"
    /\ LET active == ActivePredicates(f_A, f_df)
       IN  \E q \in 1..Len(Predicates) :
               /\ \E p \in active : PredicateNo(p) < q
               /\ \E filters \in FiltersFor(f_df, Predicates[q]) :
                     /\ f_B' = filters
                     /\ f_out2' = apply_filters(f_out1, filters)
                     /\ f_out1' = InputAfter(f_out1, filters)
    /\ f_pc' = "refined"
    /\ UNCHANGED <<f_df, f_A, getVars, loadVars, appVars, exportVars, searchVars, tableVars>>

FilterNext == ApplyFilters \/ ApplyFiltersAgain

SpecFilter == FilterInit /\ [][FilterNext]_vars

-----------------------------------------------------------------------------
(* The end-to-end scenario: a document of five questions, two of them
   overridden and one with a question number that is no number *)

ScenarioPositions == 1..5

NumeralOf(n) ==
    CASE n = 1 -> "1" [] n = 2 -> "2" [] n = 3 -> "3" [] n = 4 -> "4" [] n = 5 -> "5"

ScenarioQuestion(question_no, decision, confidence) ==
    Dict([question_no |-> Str(<<question_no>>),
          answer |-> Dict([label |-> Str(<<"A">>), text |-> Str(<<"a">>)]),
          rethink |-> Rethink(decision),
          confidence |-> Num(confidence)])

\* questions numbered 1..5 in order, the one at position x carrying "x"
ScenarioDocument(x, overridden, confidence) ==
    Dict1("questions",
          List([i \in ScenarioPositions |->
                    ScenarioQuestion(IF i = x THEN "x" ELSE NumeralOf(i),
                                     IF i \in overridden THEN "override_key"
                                                         ELSE "agree_with_key",
                                     confidence[i])]))

ScenarioFrames ==
    {normalize_questions(ScenarioDocument(x, overridden, confidence)).df :
        x \in ScenarioPositions,
        overridden \in {S \in SUBSET ScenarioPositions : Cardinality(S) = 2},
        confidence \in [ScenarioPositions -> {50, 95}]}

ScenarioInit ==
    /\ f_df \in ScenarioFrames
    /\ f_pc = "loaded"
    /\ f_A = InitialFilters(<<>>)
    /\ f_B = InitialFilters(<<>>)
    /\ f_out1 = <<>>
    /\ f_out2 = <<>>
    /\ GetIdle
    /\ LoadIdle
    /\ AppIdle
    /\ ExportIdle
    /\ SearchIdle
    /\ TableIdle

Override == Str(<<"override_key">>)

\* the sidebar's initial filters with the decision filter set to override_key
ApplyDecisionFilter ==
    /\ f_pc = "loaded"
    /\ f_A' = [InitialFilters(f_df) EXCEPT !.final_decision = {Override}]
    /\ f_out1' = apply_filters(f_df, f_A')
    /\ f_df' = InputAfter(f_df, f_A')
    /\ f_pc' = "filtered"
    /\ UNCHANGED <<f_B, f_out2, getVars, loadVars, appVars, exportVars, searchVars, tableVars>>

\* the same filters with the confidence range [0.9, 1.0] added
AddConfidenceRange ==
    /\ f_pc = "filtered"
    /\ f_B' = [f_A EXCEPT !.confidence_range = <<90, 100>>]
    /\ f_out2' = apply_filters(f_df, f_B')
    /\ f_df' = InputAfter(f_df, f_B')
    /\ f_pc' = "refined"
    /\ UNCHANGED <<f_A, f_out1, getVars, loadVars, appVars, exportVars, searchVars, tableVars>>

ScenarioNext == ApplyDecisionFilter \/ AddConfidenceRange

SpecScenario == ScenarioInit /\ [][ScenarioNext]_vars

-----------------------------------------------------------------------------
(* app.main.  Streamlit runs main from the top on every interaction; an
   action is the interaction and the runs it causes, st.rerun() included. *)

MaxUploads == 2

\* the file names of the model, in the order sorted() gives them
FileNames == <<"a.json", "b.json">>

NameNo(name) == CHOOSE i \in 1..Len(FileNames) : FileNames[i] = name

\* file content: bytes that json.load(s) parses to data, or on which it
\* raises
Parses(data) == [parses |-> TRUE, data |-> data]
Unparseable == [parses |-> FALSE, data |-> Null]

File(name, content) == [name |-> name, content |-> content]

AppQuestion(question_no) ==
    Dict([question_no |-> Str(<<question_no>>), answer |-> Answer("A", "text")])

AppDocument(questions) == Dict1("questions", List(questions))

\* documents of two and of one well-formed questions
TwoQuestions == Parses(AppDocument(<<AppQuestion("1"), AppQuestion("2")>>))
OneQuestion == Parses(AppDocument(<<AppQuestion("7")>>))

\* these, documents whose second question has no field or is no mapping, a
\* document without questions, and bytes that are no JSON
FileContents ==
    {TwoQuestions,
     OneQuestion,
     Parses(AppDocument(<<AppQuestion("1"), EmptyDict>>)),
     Parses(AppDocument(<<AppQuestion("1"), Null>>)),
     Parses(AppDocument(<<>>)),
     Unparseable}

\* the files a user uploads: any content as the first name, a good and a
\* bad one as the others
UploadableFiles ==
    {File(FileNames[1], c) : c \in FileContents}
    \cup {File(FileNames[i], c) : i \in 2..Len(FileNames), c \in {OneQuestion, Unparseable}}

\* what glob finds in DATA_DIR, sorted: each name at most once, with a good
\* or a bad content
DataDirs ==
    {d \in UNION {[1..n -> {File(FileNames[i], c) : i \in 1..Len(FileNames),
                                                    c \in {TwoQuestions, Unparseable}}] :
                     n \in 0..Len(FileNames)} :
        \A i, j \in 1..Len(d) : i < j => NameNo(d[i].name) < NameNo(d[j].name)}

\* a load in which a file that cannot be loaded empties uploaded_files_data
LoadFileOrReset(files, file) ==
    IF ~file.content.parses THEN NoFiles
    ELSE LET data == file.content.data
             missing_fields == validate_json_schema(data)
         IN  IF missing_fields.raised \/ missing_fields.missing # <<>> THEN NoFiles
             ELSE LET df == normalize_questions(data)
                  IN  IF df.raised THEN files
                      ELSE (file.name :> [data |-> data, df |-> df.df]) @@ files

\* the body of the try blocks: the file is parsed and validated and, when
\* nothing is missing, normalized and stored under its name.  An exception
\* anywhere is caught and leaves uploaded_files_data as it was.
LoadFile(files, file) ==
    IF ~file.content.parses THEN files
    ELSE LET data == file.content.data
             missing_fields == validate_json_schema(data)
         IN  IF missing_fields.raised \/ missing_fields.missing # <<>> THEN files
             ELSE LET df == normalize_questions(data)
                  IN  IF df.raised THEN files
                      ELSE (file.name :> [data |-> data, df |-> df.df]) @@ files

\* for file_path in default_files, from the i-th on
RECURSIVE LoadDefaultFiles(_, _, _)
LoadDefaultFiles(files, default_files, i) ==
    IF i > Len(default_files) THEN files
    ELSE LoadDefaultFiles(LoadFile(files, default_files[i]), default_files, i + 1)

\* if not st.session_state.uploaded_files_data: the files of DATA_DIR
WithDefaultFiles(files, default_files) ==
    IF DOMAIN files = {} THEN LoadDefaultFiles(files, default_files, 1) ELSE files

\* for uploaded_file in uploaded_files, from the i-th on: a file whose name
\* is loaded already is passed over
RECURSIVE ProcessUploads(_, _, _)
ProcessUploads(files, uploaded_files, i) ==
    IF i > Len(uploaded_files) THEN files
    ELSE ProcessUploads(IF uploaded_files[i].name \in DOMAIN files
                        THEN files
                        ELSE LoadFile(files, uploaded_files[i]),
                        uploaded_files, i + 1)

\* the files for which a run that starts with `files` enters a try block
TriedFiles(files, default_files, uploaded_files) ==
    {default_files[i] : i \in {j \in 1..Len(default_files) : DOMAIN files = {}}}
    \cup {uploaded_files[i] : i \in {j \in 1..Len(uploaded_files) :
              uploaded_files[j].name \notin
                  DOMAIN ProcessUploads(WithDefaultFiles(files, default_files),
                                        SubSeq(uploaded_files, 1, j - 1), 1)}}

\* sorted(uploaded_files_data.keys())[0]
FirstName(files) ==
    CHOOSE name \in DOMAIN files : \A other \in DOMAIN files : NameNo(name) <= NameNo(other)

\* where a run ends: the message that nothing is loaded, or the detail view
\* of df.iloc[current_question_idx], an IndexError when there is no such row
Screen(df, idx) ==
    IF df.none \/ Len(df.rows) = 0 THEN "info"
    ELSE IF idx < Len(df.rows) THEN "detail"
    ELSE "error"

\* the question index is kept when another file is selected
KeptIndex(selected_file, current_file, idx) == idx

\* if selected_file != st.session_state.current_file:
\* current_question_idx = 0
SelectedIndex(selected_file, current_file, idx) ==
    IF selected_file # current_file THEN 0 ELSE idx

\* one run of main by an authenticated session, with the upload widget
\* holding uploaded_files and the select box returning `selected` (PyNone:
\* the box is left at the option it shows, current_file).  A changed
\* selection ends in st.rerun(): the run after it passes over the loaded
\* files, rejects the others again and shows the box at the new
\* current_file.
Run(session, default_files, uploaded_files, selected) ==
    LET files == ProcessUploads(WithDefaultFiles(session.files, default_files),
                                uploaded_files, 1)
        tried == TriedFiles(session.files, default_files, uploaded_files)
    IN  IF DOMAIN files = {}
        THEN [session EXCEPT !.tried = tried,
                             !.screen = Screen(session.df, session.idx)]
        ELSE LET current_file ==
                     IF session.current_file = PyNone
                        \/ session.current_file \notin DOMAIN files
                     THEN FirstName(files)
                     ELSE session.current_file
                 selected_file ==
                     IF selected = PyNone THEN current_file ELSE selected
                 idx == SelectedIndex(selected_file, current_file, session.idx)
                 df == DataFrame(files[selected_file].df)
             IN  [files |-> files,
                  current_file |-> selected_file,
                  df |-> df,
                  idx |-> idx,
                  tried |-> tried,
                  screen |-> Screen(df, idx)]

Session ==
    [files |-> a_files, current_file |-> a_current_file, df |-> a_df,
     idx |-> a_idx, tried |-> a_tried, screen |-> a_screen]

\* the session state a run leaves
Ran(session) ==
    /\ a_files' = session.files
    /\ a_current_file' = session.current_file
    /\ a_df' = session.df
    /\ a_idx' = session.idx
    /\ a_tried' = session.tried
    /\ a_screen' = session.screen

PASSWORD == "PASSWORD"

Passwords == {PASSWORD, "guess"}

AppInit ==
    /\ a_authenticated = FALSE
    /\ a_files = NoFiles
    /\ a_current_file = PyNone
    /\ a_df = NoFrame
    /\ a_idx = 0
    /\ a_uploader = <<>>
    /\ a_dir \in DataDirs
    /\ a_tried = {}
    /\ a_screen = "login"
    /\ a_password = PyNone
    /\ GetIdle
    /\ LoadIdle
    /\ FilterIdle
    /\ ExportIdle
    /\ SearchIdle
    /\ TableIdle

\* a login form that accepts what is typed
LoginWithAnyPassword ==
    /\ ~a_authenticated
    /\ \E password \in Passwords :
          /\ a_password' = password
          /\ a_authenticated' = TRUE
          /\ Ran(Run(Session, a_dir, a_uploader, PyNone))
    /\ UNCHANGED <<a_uploader, a_dir, getVars, loadVars, filterVars, exportVars, searchVars, tableVars>>

\* the login form is submitted: with the PASSWORD the session is
\* authenticated and main runs again, otherwise the form stays
Login ==
    /\ ~a_authenticated
    /\ \E password \in Passwords :
          /\ a_password' = password
          /\ IF password = PASSWORD
             THEN /\ a_authenticated' = TRUE
                  /\ Ran(Run(Session, a_dir, a_uploader, PyNone))
             ELSE /\ a_screen' = "login"
                  /\ UNCHANGED <<sessionVars, a_tried>>
    /\ UNCHANGED <<a_uploader, a_dir, getVars, loadVars, filterVars, exportVars, searchVars, tableVars>>

\* a file is added to the upload widget
Upload ==
    /\ a_authenticated
    /\ Len(a_uploader) < MaxUploads
    /\ \E file \in UploadableFiles :
          /\ a_uploader' = Append(a_uploader, file)
          /\ Ran(Run(Session, a_dir, a_uploader', PyNone))
    /\ UNCHANGED <<a_authenticated, a_password, a_dir, getVars, loadVars, filterVars, exportVars, searchVars, tableVars>>

\* a file is taken out of the upload widget
RemoveUpload ==
    /\ a_authenticated
    /\ \E i \in 1..Len(a_uploader) :
          /\ a_uploader' = SubSeq(a_uploader, 1, i - 1)
                               \o SubSeq(a_uploader, i + 1, Len(a_uploader))
          /\ Ran(Run(Session, a_dir, a_uploader', PyNone))
    /\ UNCHANGED <<a_authenticated, a_password, a_dir, getVars, loadVars, filterVars, exportVars, searchVars, tableVars>>

\* another file is chosen in the select box
SelectFile ==
    /\ a_authenticated
    /\ \E selected \in DOMAIN a_files \ {a_current_file} :
          Ran(Run(Session, a_dir, a_uploader, selected))
    /\ UNCHANGED <<a_authenticated, a_password, a_uploader, a_dir, getVars, loadVars, filterVars, exportVars, searchVars, tableVars>>

\* the buttons and the number input above the detail view change
\* current_question_idx and call st.rerun()
Navigated(idx) ==
    /\ Ran(Run([Session EXCEPT !.idx = idx], a_dir, a_uploader, PyNone))
    /\ UNCHANGED <<a_authenticated, a_password, a_uploader, a_dir, getVars, loadVars, filterVars, exportVars, searchVars, tableVars>>

Previous ==
    /\ a_authenticated /\ a_screen = "detail"
    /\ a_idx # 0
    /\ Navigated(IF a_idx - 1 > 0 THEN a_idx - 1 ELSE 0)

\* a Next button that is never disabled and adds one
NextQuestionUnbounded ==
    /\ a_authenticated /\ a_screen = "detail"
    /\ Navigated(a_idx + 1)

NextQuestion ==
    /\ a_authenticated /\ a_screen = "detail"
    /\ ~(a_idx >= Len(a_df.rows) - 1)
    /\ Navigated(IF a_idx + 1 < Len(a_df.rows) - 1 THEN a_idx + 1 ELSE Len(a_df.rows) - 1)

GoTo ==
    /\ a_authenticated /\ a_screen = "detail"
    /\ \E go_to_question \in 1..Len(a_df.rows) :
          /\ go_to_question # a_idx + 1
          /\ Navigated(go_to_question - 1)

AppNext ==
    Login \/ Upload \/ RemoveUpload \/ SelectFile \/ Previous \/ NextQuestion \/ GoTo

SpecApp == AppInit /\ [][AppNext]_vars

-----------------------------------------------------------------------------
(* The export of filtered records: a document is normalized, its records
   are filtered and the result is exported *)

\* questions with nested values, a quote inside a string, a null and a
\* number, and the question without any field
ExportQuestions ==
    {Dict(("question_no" :> Str(<<"1">>))
          @@ ("answer" :> Dict([label |-> Str(<<"A">>),
                                text |-> Str(<<"B", "\"", "a", "\\">>)]))
          @@ ("rethink" :> Rethink("override_key"))
          @@ ("flags" :> Flags(FALSE, TRUE))
          @@ ("confidence" :> Num(95))
          @@ ("why" :> List(<<Str(<<"r">>), Str(<<>>)>>))),
     Dict(("question_no" :> Str(<<"2">>))
          @@ ("answer" :> Answer("B", "a"))
          @@ ("confidence" :> Null)
          @@ ("metadata" :> Metadata(TRUE))
          @@ ("findings" :> EmptyList)),
     Dict(("question_no" :> Str(<<"x">>))
          @@ ("answer" :> EmptyDict)
          @@ ("others" :> List(<<Dict([text |-> Str(<<"F", " ", "B">>), reason |-> EmptyStr])>>))),
     EmptyDict}

\* the documents of up to MaxRecords of them that validate
ExportDocuments ==
    {data \in {Dict1("questions", List(qs)) :
                  qs \in UNION {[1..n -> ExportQuestions] : n \in 1..MaxRecords}} :
        Accepted(validate_json_schema(data))}

\* what pd.Timestamp.now().isoformat() returns
Timestamps == {"2025-01-01T00:00:00", "2025-01-01T00:00:01"}

ExportInit ==
    /\ e_data \in ExportDocuments
    /\ e_df = <<>>
    /\ e_json = <<>>
    /\ e_md = <<>>
    /\ f_df = normalize_questions(e_data).df
    /\ f_pc = "loaded"
    /\ f_A = InitialFilters(<<>>)
    /\ f_B = InitialFilters(<<>>)
    /\ f_out1 = <<>>
    /\ f_out2 = <<>>
    /\ GetIdle
    /\ LoadIdle
    /\ AppIdle
    /\ SearchIdle
    /\ TableIdle

\* export_to_json(df) of the records as normalized, or of the records
\* that apply_filters returned
ExportJson ==
    /\ f_pc \in {"loaded", "filtered"}
    /\ e_df' = IF f_pc = "loaded" THEN f_df ELSE f_out1
    /\ \E now \in Timestamps : e_json' = export_to_json(e_df', now)
    /\ f_pc' = "exported"
    /\ UNCHANGED <<f_df, f_A, f_B, f_out1, f_out2, e_data, e_md, getVars, loadVars, appVars,
                   searchVars, tableVars>>

ExportNext == ApplyFilters \/ ExportJson

SpecExport == ExportInit /\ [][ExportNext]_vars

-----------------------------------------------------------------------------
(* Inputs of the normalizer specification: a question that carries every
   field, and the questions that differ from it in one field, which is
   missing, null or of another type *)

FullQuestion ==
    ("question_no" :> Str(<<"1">>))
    @@ ("depth" :> Str(<<"basic">>))
    @@ ("answer" :> Answer("A", "text"))
    @@ ("rethink" :> Dict([provided_key |-> Dict1("label", Str(<<"B">>)),
                           final_decision |-> Str(<<"override_key">>)]))
    @@ ("flags" :> Flags(TRUE, TRUE))
    @@ ("confidence" :> Num(95))
    @@ ("runner_up" :> Str(<<"C">>))
    @@ ("metadata" :> Metadata(TRUE))
    @@ ("why" :> List(<<Str(<<"r">>)>>))
    @@ ("findings" :> List(<<Str(<<"f">>)>>))
    @@ ("others" :> List(<<Dict([text |-> Str(<<"o">>), reason |-> EmptyStr])>>))

Without(q, key) == [k \in DOMAIN q \ {key} |-> q[k]]

\* the values put in the place of a field: null everywhere, a mapping whose
\* own fields are null in the place of a mapping, and the confidences that
\* are no number
Replacements(key) ==
    {Null}
    \cup (CASE key = "answer" -> {Dict([label |-> Null, text |-> Null])}
            [] key = "rethink" -> {Dict([provided_key |-> Null, final_decision |-> Null]),
                                   Dict1("provided_key", Dict1("label", Null))}
            [] key = "flags" -> {Dict([illegible |-> Null, mixed_lang |-> Null])}
            [] key = "metadata" -> {Dict1("input_metadata", Dict1("has_images", Null))}
            [] key = "confidence" -> {Str(<<"bad">>), Str(<<"1">>), Bool(TRUE),
                                      List(<<Num(95)>>), Num(0)}
            [] OTHER -> {})

NormalizeQuestions ==
    {Dict(FullQuestion)}
    \cup {Dict(Without(FullQuestion, key)) : key \in DOMAIN FullQuestion}
    \cup UNION {{Dict([FullQuestion EXCEPT ![key] = v]) : v \in Replacements(key)} :
                    key \in DOMAIN FullQuestion}

NormalizeDocuments ==
    {Dict(("questions" :> List(qs)) @@ Opt("defaults", df)) :
        qs \in UNION {[1..n -> NormalizeQuestions] : n \in 1..MaxQuestions},
        df \in {Absent, Dict1("depth", Str(<<"deep">>)), Dict1("depth", Null)}}

NormalizeInit ==
    /\ l_data \in NormalizeDocuments
    /\ l_pc = "parsed"
    /\ l_valid = Returned(<<>>)
    /\ l_norm = Frame(<<>>)
    /\ GetIdle
    /\ FilterIdle
    /\ AppIdle
    /\ ExportIdle
    /\ SearchIdle
    /\ TableIdle

SpecNormalize == NormalizeInit /\ [][LoadNext]_vars

-----------------------------------------------------------------------------
(* The markdown report of a record set: a document is normalized and its
   records, or those that apply_filters returns, are reported *)

Option(label, text, reason) ==
    Dict([label |-> Str(<<label>>), text |-> Str(<<text>>), reason |-> Str(<<reason>>)])

\* questions with three, two, one and no why entries, a null why, and with
\* three, two, one and no others entries, an entry without reason and one
\* without label
MarkdownQuestions ==
    {Dict(("question_no" :> Str(<<"1">>))
          @@ ("answer" :> Answer("1", "a"))
          @@ ("rethink" :> Dict([final_decision |-> Str(<<"override_key">>),
                                 provided_key |-> Dict1("label", Str(<<"2">>))]))
          @@ ("flags" :> Flags(TRUE, TRUE))
          @@ ("confidence" :> Num(95))
          @@ ("why" :> List(<<Str(<<"w1">>), Str(<<"w2">>), Str(<<"w3">>)>>))
          @@ ("others" :> List(<<Option("2", "t2", "r2"), Option("3", "t3", "r3"),
                                 Option("4", "t4", "r4")>>))),
     Dict(("question_no" :> Str(<<"2">>))
          @@ ("answer" :> Answer("B", "b"))
          @@ ("rethink" :> Rethink("agree_with_key"))
          @@ ("why" :> List(<<Str(<<"w4">>), Str(<<"w5">>)>>))
          @@ ("others" :> EmptyList)),
     Dict(("question_no" :> Str(<<"3">>))
          @@ ("answer" :> Answer("C", "c"))
          @@ ("metadata" :> Metadata(TRUE))
          @@ ("others" :> List(<<Dict([label |-> Str(<<"5">>), text |-> Str(<<"t5">>)])>>))),
     Dict(("question_no" :> Str(<<"x">>))
          @@ ("answer" :> Answer("D", "d"))
          @@ ("why" :> List(<<Str(<<"w6">>)>>))
          @@ ("others" :> List(<<Dict([text |-> Str(<<"t6">>), reason |-> Str(<<"r6">>)]),
                                 Option("1", "t7", "")>>))),
     Dict(("question_no" :> Str(<<"5">>))
          @@ ("answer" :> Answer("E", "e"))
          @@ ("why" :> Null))}

\* the documents of up to MaxRecords of them
MarkdownDocuments ==
    {Dict1("questions", List(qs)) :
        qs \in UNION {[1..n -> MarkdownQuestions] : n \in 1..MaxRecords}}

\* what pd.Timestamp.now().strftime('%Y-%m-%d %H:%M:%S') returns
ReportTimes == {"2025-01-01 00:00:00"}

MarkdownInit ==
    /\ e_data \in MarkdownDocuments
    /\ e_df = <<>>
    /\ e_json = <<>>
    /\ e_md = <<>>
    /\ f_df = normalize_questions(e_data).df
    /\ f_pc = "loaded"
    /\ f_A = InitialFilters(<<>>)
    /\ f_B = InitialFilters(<<>>)
    /\ f_out1 = <<>>
    /\ f_out2 = <<>>
    /\ GetIdle
    /\ LoadIdle
    /\ AppIdle
    /\ SearchIdle
    /\ TableIdle

\* filtered = apply_filters(df, filters) with one control moved
FilterForReport ==
    /\ f_pc = "loaded"
    /\ \E filters \in FiltersFor(f_df, "question_range") \cup FiltersFor(f_df, "illegible") :
          /\ f_A' = filters
          /\ f_out1' = apply_filters(f_df, filters)
          /\ f_df' = InputAfter(f_df, filters)
    /\ f_pc' = "filtered"
    /\ UNCHANGED <<f_B, f_out2, getVars, loadVars, appVars, exportVars, searchVars, tableVars>>

\* export_to_markdown(df, show_korean) of the records as normalized, or of
\* the records that apply_filters returned
ExportMarkdown ==
    /\ f_pc \in {"loaded", "filtered"}
    /\ e_df' = IF f_pc = "loaded" THEN f_df ELSE f_out1
    /\ \E show_korean \in BOOLEAN, now \in ReportTimes :
          e_md' = export_to_markdown(e_df', show_korean, now)
    /\ f_pc' = "reported"
    /\ UNCHANGED <<f_df, f_A, f_B, f_out1, f_out2, e_data, e_json, getVars, loadVars,
                   appVars, searchVars, tableVars>>

MarkdownNext == FilterForReport \/ ExportMarkdown

SpecMarkdown == MarkdownInit /\ [][MarkdownNext]_vars

-----------------------------------------------------------------------------
(* The table over a filtered set that changes: the columns of the records
   that render_table's control flow reads *)

\* the numbers of records: none, one, a full page, one more, and more than
\* a compact page
TableSizes == {0, 1, 10, 11, 21, 25}

\* question numbers that repeat after `period` records; a filtered set
\* keeps the index labels of the records, here the even numbers
TableFrame(n, period) ==
    [i \in 1..n |-> [index |-> 2 * (i - 1),
                     question_no |-> Num(Hundredths(((i - 1) % period) + 1))]]

\* sets of distinct question numbers, and sets in which they repeat
TableFrames == {TableFrame(n, period) : n \in TableSizes, period \in {7, 100}}

TableSession ==
    [page_number |-> t_page_number, selected_row_in_page |-> t_selected_row_in_page]

\* the session state and the return value a run leaves
Rendered(run) ==
    /\ t_page_number' = run.session.page_number
    /\ t_selected_row_in_page' = run.session.selected_row_in_page
    /\ t_ret' = run.ret

\* the first run: page_number and selected_row_in_page are set to 0
TableInit ==
    /\ t_df \in TableFrames
    /\ t_compact_mode \in BOOLEAN
    /\ LET run == render_table([page_number |-> 0, selected_row_in_page |-> 0],
                               t_df, t_compact_mode, "none")
       IN  /\ t_page_number = run.session.page_number
           /\ t_selected_row_in_page = run.session.selected_row_in_page
           /\ t_ret = run.ret
    /\ t_event = "none"
    /\ GetIdle
    /\ LoadIdle
    /\ FilterIdle
    /\ AppIdle
    /\ ExportIdle
    /\ SearchIdle

\* a button of the table is pressed; the buttons are drawn when the set is
\* not empty
Press ==
    /\ Len(t_df) > 0
    /\ \E button \in Buttons :
          /\ Enabled(TableSession, t_df, t_compact_mode, button)
          /\ t_event' = button
          /\ Rendered(render_table(TableSession, t_df, t_compact_mode, button))
    /\ UNCHANGED <<t_df, t_compact_mode, getVars, loadVars, filterVars, appVars,
                   exportVars, searchVars>>

\* the filters change and the table is rendered over another filtered set
ChangeFilters ==
    /\ \E df \in TableFrames \ {t_df} :
          /\ t_df' = df
          /\ Rendered(render_table(TableSession, df, t_compact_mode, "none"))
    /\ t_event' = "filters"
    /\ UNCHANGED <<t_compact_mode, getVars, loadVars, filterVars, appVars,
                   exportVars, searchVars>>

\* compact mode is switched
ToggleCompact ==
    /\ t_compact_mode' = ~t_compact_mode
    /\ Rendered(render_table(TableSession, t_df, t_compact_mode', "none"))
    /\ t_event' = "compact_mode"
    /\ UNCHANGED <<t_df, getVars, loadVars, filterVars, appVars, exportVars, searchVars>>

TableNext == Press \/ ChangeFilters \/ ToggleCompact

SpecTable == TableInit /\ [][TableNext]_vars

-----------------------------------------------------------------------------
(* Calls of search_text_fields on the records of one-question documents *)

FooBar == <<"F", "o", "o", " ", "B", "A", "R">>

\* answers with and without a text
SearchAnswers ==
    {Dict([label |-> Str(<<"A">>), text |-> Str(<<"F", "o", "o">>)]),
     Dict1("label", Str(<<"A">>))}

\* why: absent, null, or a list of strings
SearchWhys == {Absent, Null, List(<<Str(<<"a", "B">>), Str(<<"x">>)>>)}

\* findings: absent or a list of one string
SearchFindings == {Absent, List(<<Str(<<"R", "a", "b">>)>>)}

\* others: absent, the entry {"text": "Foo BAR", "reason": ""}, an entry
\* with neither text nor reason, an entry with a reason after one without,
\* and an entry that is a string
SearchOthers ==
    {Absent,
     List(<<Dict([text |-> Str(FooBar), reason |-> EmptyStr])>>),
     List(<<Dict1("label", Str(<<"B">>))>>),
     List(<<Dict1("label", Str(<<"B">>)),
            Dict([label |-> Str(<<"C">>), reason |-> Str(<<"b", "a", "r">>)])>>),
     List(<<Str(<<"b", "a", "r">>)>>)}

SearchQuestion(answer, why, findings, others) ==
    Dict(Opt("why", why) @@ Opt("findings", findings) @@ Opt("others", others)
         @@ [question_no |-> Str(<<"1">>), answer |-> answer])

\* the record normalize_questions builds for the question
SearchRows ==
    {normalize_questions(Dict1("questions",
                               List(<<SearchQuestion(answer, why, findings, others)>>))).df[1] :
        answer \in SearchAnswers, why \in SearchWhys,
        findings \in SearchFindings, others \in SearchOthers}

SearchTerms ==
    {<<"b", "a", "r">>, <<"B", "A", "R">>, <<"B", "a", "r">>, <<"f", "o", "o">>,
     <<"o", " ", "b">>, <<"a", "b">>, <<"r", "a">>, <<"x">>, <<"z">>,
     <<"o", "o", "f">>, <<"F", "o", "o", " ", "B", "A", "R">>}

SearchInit ==
    /\ s_row \in SearchRows
    /\ s_term \in SearchTerms
    /\ s_pc = "called"
    /\ s_ret = FALSE
    /\ GetIdle
    /\ LoadIdle
    /\ FilterIdle
    /\ AppIdle
    /\ ExportIdle
    /\ TableIdle

\* search_text_fields(row, search_term)
CallSearch ==
    /\ s_pc = "called"
    /\ s_ret' = search_text_fields(s_row, s_term)
    /\ s_pc' = "returned"
    /\ UNCHANGED <<s_row, s_term, getVars, loadVars, filterVars, appVars, exportVars,
                   tableVars>>

SearchNext == CallSearch

SpecSearch == SearchInit /\ [][SearchNext]_vars

-----------------------------------------------------------------------------
(* Claims about apply_filters *)

OnlyRangeActive(filters, df) ==
    ActivePredicates(filters, df) \subseteq {"question_range"}

AllParseAsInt(df) == \A i \in 1..Len(df) : IntParses(df[i].question_no)

\* C1: when some record's question_no does not parse as an integer, the
\* range [lo, hi] selects the records at positions lo..hi of the record
\* set (the other criteria being inactive).
C1_RangeFallsBackToPositions ==
    (f_pc = "filtered" /\ ~AllParseAsInt(f_df) /\ OnlyRangeActive(f_A, f_df)) =>
        f_out1 = Iloc(f_df, f_A.question_range[1], f_A.question_range[2])

\* C2: when every record's question_no parses as an integer and the other
\* criteria are inactive, exactly the records whose question number q has
\* lo <= q <= hi are kept.
C2_NumericRangeInclusive ==
    (f_pc = "filtered" /\ AllParseAsInt(f_df) /\ OnlyRangeActive(f_A, f_df)) =>
        LET InRange(row) ==
                /\ f_A.question_range[1] <= IntOf(row.question_no)
                /\ IntOf(row.question_no) <= f_A.question_range[2]
        IN  f_out1 = SelectSeq(f_df, InRange)

C2_Witness ==
    /\ f_pc = "filtered"
    /\ AllParseAsInt(f_df)
    /\ ActivePredicates(f_A, f_df) = {"question_range"}
    /\ Len(f_df) = 3
    /\ f_out1 # <<>>
    /\ \E i \in 1..Len(f_df) :
          IntOf(f_df[i].question_no) = f_A.question_range[2] /\ f_df[i] = f_out1[Len(f_out1)]

\* the filters that activate what A or B activates
MergeFilters(A, B, df) ==
    LET active == ActivePredicates(A, df)
    IN  [p \in DOMAIN A |-> IF p \in active THEN A[p] ELSE B[p]]

Labels(df) == {df[i].index : i \in 1..Len(df)}

PositionOf(df, label) == CHOOSE j \in 1..Len(df) : df[j].index = label

\* out holds records of df only, each at most once, in df's order
IsSubsequence(out, df) ==
    /\ \A i \in 1..Len(out) : \E j \in 1..Len(df) : df[j] = out[i]
    /\ \A i \in 1..Len(out) : \A j \in 1..Len(out) :
          i < j => PositionOf(df, out[i].index) < PositionOf(df, out[j].index)

\* C4: the result of apply_filters is a subsequence of its input.
C4_Subsequence ==
    /\ f_pc \in {"filtered", "refined"} => IsSubsequence(f_out1, f_df)
    /\ f_pc = "refined" =>
          (IsSubsequence(f_out2, f_out1) /\ IsSubsequence(f_out2, f_df))

C4_Witness ==
    /\ f_pc = "filtered"
    /\ f_A.final_decision = DecisionOptions(f_df)
    /\ Cardinality(f_A.final_decision) = 2
    /\ Len(f_out1) = 2
    /\ Len(f_df) = 3
    /\ f_out1[1].final_decision = Override

IsOverride(row) == row.final_decision = Override

\* C5: in the five-question scenario the decision filter {"override_key"}
\* on top of the sidebar's initial criteria returns exactly the 2 override
\* records, wherever the non-numeric question_no is; with the confidence
\* range [0.9, 1.0] added it returns those of them with a confidence in
\* the range, in order.
C5_ScenarioOverrides ==
    /\ f_pc \in {"filtered", "refined"} =>
          (Len(f_out1) = 2 /\ f_out1 = SelectSeq(f_df, IsOverride))
    /\ f_pc = "refined" =>
          LET Both(row) == IsOverride(row) /\ row.confidence >= 90 /\ row.confidence <= 100
          IN  f_out2 = SelectSeq(f_df, Both)

-----------------------------------------------------------------------------
(* Claims about safe_get *)

\* every segment of keys from position i on resolves, through mappings, to a
\* value that is not null
RECURSIVE PathResolves(_, _, _)
PathResolves(current, keys, i) ==
    \/ i > Len(keys)
    \/ /\ IsDict(current)
       /\ HasKey(current, keys[i])
       /\ ~IsNull(current.d[keys[i]])
       /\ PathResolves(current.d[keys[i]], keys, i + 1)

\* the value at the path, for a path that resolves
RECURSIVE ValueAtPath(_, _, _)
ValueAtPath(current, keys, i) ==
    IF i > Len(keys) THEN current
    ELSE ValueAtPath(current.d[keys[i]], keys, i + 1)

\* C6: safe_get returns the value at the dotted path when every segment
\* resolves through mappings to a non-null value, and otherwise exactly the
\* given default, whatever the default is (a mapping included).
C6_SafeGetValueOrDefault ==
    g_pc = "returned" =>
        g_ret = IF PathResolves(g_obj, Split(g_path), 1)
                THEN ValueAtPath(g_obj, Split(g_path), 1)
                ELSE g_default

\* the same, for the defaults that are not mappings
C6_HoldsForScalarDefault ==
    (g_pc = "returned" /\ ~IsDict(g_default)) =>
        g_ret = IF PathResolves(g_obj, Split(g_path), 1)
                THEN ValueAtPath(g_obj, Split(g_path), 1)
                ELSE g_default

-----------------------------------------------------------------------------
(* Claims about validate_json_schema and normalize_questions *)

HasQuestions == IsDict(l_data) /\ HasKey(l_data, "questions")
QuestionsOf(data) == data.d["questions"].l

\* C8: the rules short-circuit: a document without questions, with
\* questions that are no list, or with an empty list gets exactly the one
\* descriptor of that rule.
C8_ShortCircuit ==
    l_pc # "parsed" =>
        /\ ~HasQuestions => l_valid = Returned(<<"questions">>)
        /\ (HasQuestions /\ ~IsList(l_data.d["questions"]))
               => l_valid = Returned(<<"questions (must be a list)">>)
        /\ (HasQuestions /\ IsList(l_data.d["questions"])
                /\ Len(QuestionsOf(l_data)) = 0)
               => l_valid = Returned(<<"questions (list is empty)">>)

C8_Witness ==
    /\ l_pc = "validated"
    /\ HasQuestions
    /\ l_data.d["questions"] = List(<<>>)
    /\ l_valid.missing = <<"questions (list is empty)">>

\* a field is missing from a question that is no mapping or lacks the key
FieldMissing(q, field) == ~(IsDict(q) /\ HasKey(q, field))

ExpectedMissing(q) ==
    (IF FieldMissing(q, "question_no") THEN <<FieldDescriptor("question_no")>> ELSE <<>>)
    \o (IF FieldMissing(q, "answer") THEN <<FieldDescriptor("answer")>> ELSE <<>>)

NonEmptyQuestions ==
    HasQuestions /\ IsList(l_data.d["questions"]) /\ Len(QuestionsOf(l_data)) > 0

\* C9: for a non-empty questions list the result holds exactly one
\* descriptor for each of question_no and answer missing from the first
\* element, whatever the later elements are.
C9_FirstElementFields ==
    (l_pc # "parsed" /\ NonEmptyQuestions) =>
        l_valid = Returned(ExpectedMissing(QuestionsOf(l_data)[1]))

\* the same, for a first element that is a mapping
C9_HoldsForMappingFirst ==
    (l_pc # "parsed" /\ NonEmptyQuestions /\ IsDict(QuestionsOf(l_data)[1])) =>
        l_valid = Returned(ExpectedMissing(QuestionsOf(l_data)[1]))

\* C10: for a document that passed validation with N questions the
\* normalizer returns, without raising, N records, the i-th one holding the
\* i-th question under the i-th label.
C10_NormalizeTotalOrdered ==
    l_pc = "normalized" =>
        /\ ~l_norm.raised
        /\ Len(l_norm.df) = Len(QuestionsOf(l_data))
        /\ \A i \in 1..Len(l_norm.df) :
              /\ l_norm.df[i].raw = QuestionsOf(l_data)[i]
              /\ l_norm.df[i].index = i - 1

\* the same, for documents whose questions are all mappings
C10_HoldsForMappings ==
    (l_pc = "normalized"
        /\ \A i \in 1..Len(QuestionsOf(l_data)) : IsDict(QuestionsOf(l_data)[i])) =>
        /\ ~l_norm.raised
        /\ Len(l_norm.df) = Len(QuestionsOf(l_data))
        /\ \A i \in 1..Len(l_norm.df) :
              /\ l_norm.df[i].raw = QuestionsOf(l_data)[i]
              /\ l_norm.df[i].index = i - 1

-----------------------------------------------------------------------------
(* Claims about app.main *)

\* the file's document is what uploaded_files_data holds under its name
Loaded(file) ==
    /\ file.name \in DOMAIN a_files
    /\ a_files[file.name].data = file.content.data

AllQuestionsMappings(data) ==
    (IsDict(data) /\ HasKey(data, "questions") /\ IsList(data.d["questions"])) =>
        \A i \in 1..Len(QuestionsOf(data)) : IsDict(QuestionsOf(data)[i])

\* C7: a parsed document that a run of main tries to load is in the loaded
\* set after the run if and only if validate_json_schema returns the empty
\* list for it; a document whose later questions lack fields or are no
\* mappings is in it.
C7_LoadedIffValid ==
    \A file \in a_tried :
        file.content.parses =>
            (Loaded(file) <=> Accepted(validate_json_schema(file.content.data)))

\* what holds of C7: the equivalence for the documents whose questions are
\* all mappings
C7_HoldsForMappings ==
    \A file \in a_tried :
        (file.content.parses /\ AllQuestionsMappings(file.content.data)) =>
            (Loaded(file) <=> Accepted(validate_json_schema(file.content.data)))

\* a file that json.load(s) does not parse or that validate_json_schema
\* does not accept
BadDocument(file) ==
    \/ ~file.content.parses
    \/ ~Accepted(validate_json_schema(file.content.data))

\* a file that is parsed, accepted and normalized
GoodDocument(file) ==
    /\ ~BadDocument(file)
    /\ ~normalize_questions(file.content.data).raised

\* the files a run that starts with `files` goes through, in its order
Batch(files, default_files, uploaded_files) ==
    (IF DOMAIN files = {} THEN default_files ELSE <<>>) \o uploaded_files

\* C15: a run of main in which a document fails to parse or to validate
\* leaves the entry (document and records) of every document loaded before
\* it as it was and adds no entry for the bad document, and the other files
\* of the batch are still processed: every good file of the batch has its
\* name loaded after the run.
C15_BadDocumentIsLocal ==
    [][LET batch == Batch(a_files, a_dir, a_uploader')
       IN  (a_authenticated' /\ \E i \in 1..Len(batch) : BadDocument(batch[i])) =>
               /\ \A name \in DOMAIN a_files :
                     name \in DOMAIN a_files' /\ a_files'[name] = a_files[name]
               /\ \A name \in DOMAIN a_files' \ DOMAIN a_files :
                     \E i \in 1..Len(batch) :
                         /\ batch[i].name = name
                         /\ GoodDocument(batch[i])
                         /\ a_files'[name].data = batch[i].content.data
                         /\ a_files'[name].df = normalize_questions(batch[i].content.data).df
               /\ \A i \in 1..Len(batch) :
                     GoodDocument(batch[i]) => batch[i].name \in DOMAIN a_files']_vars

\* a document is loaded, and a file that fails validation has been tried
\* after it under another name and has left no entry
C15_Witness ==
    /\ a_authenticated
    /\ DOMAIN a_files # {}
    /\ \E file \in a_tried :
          /\ file.content.parses
          /\ BadDocument(file)
          /\ file.name \notin DOMAIN a_files
    /\ \E i, j \in 1..Len(a_uploader) :
          /\ i < j
          /\ BadDocument(a_uploader[i])
          /\ GoodDocument(a_uploader[j])
          /\ a_uploader[j].name \in DOMAIN a_files
          /\ a_files[a_uploader[j].name].data = a_uploader[j].content.data

\* C16: the records held for a file name are the normalization of the
\* content most recently loaded under that name, also when the name was
\* loaded before: of the good files of that name in the upload widget, the
\* one added last.
C16_RebuiltOnLoad ==
    \A i \in 1..Len(a_uploader) :
        LET file == a_uploader[i]
        IN  (/\ a_authenticated
             /\ GoodDocument(file)
             /\ \A j \in (i + 1)..Len(a_uploader) :
                   ~(a_uploader[j].name = file.name /\ GoodDocument(a_uploader[j])))
            => /\ file.name \in DOMAIN a_files
               /\ a_files[file.name].data = file.content.data
               /\ a_files[file.name].df = normalize_questions(file.content.data).df

\* the columns of a frame: the fields of its rows
Columns(rows) == UNION {DOMAIN rows[i] : i \in 1..Len(rows)}

\* C19: apply_filters treats its input as read-only.  A call leaves the
\* frame it was given with the same records, in the same order and with the
\* same fields (no helper column), and the records it returns are records
\* of the input with exactly their fields.
C19_InputReadOnly ==
    [][/\ f_pc' = "filtered" =>
             /\ f_df' = f_df
             /\ \A i \in 1..Len(f_out1') :
                   \E j \in 1..Len(f_df) :
                       /\ f_out1'[i] = f_df[j]
                       /\ DOMAIN f_out1'[i] = DOMAIN f_df[j]
       /\ f_pc' = "refined" =>
             /\ f_out1' = f_out1
             /\ \A i \in 1..Len(f_out2') :
                   \E j \in 1..Len(f_out1) :
                       /\ f_out2'[i] = f_out1[j]
                       /\ DOMAIN f_out2'[i] = DOMAIN f_out1[j]]_vars

\* a call has returned some records of a frame of several, and neither
\* frame has the helper column
C19_Witness ==
    /\ f_pc = "filtered"
    /\ Len(f_df) > 1
    /\ Len(f_out1) > 0
    /\ Len(f_out1) < Len(f_df)
    /\ "_q_num" \notin Columns(f_df) \cup Columns(f_out1)
    /\ "question_no" \in Columns(f_out1)

\* what apply_filters returns for df under `filters` when, by the claim,
\* the decision selection is `selection`: the records that the same filters
\* with only "All" selected return, all of them when the selection is empty
\* or holds "All", and otherwise those whose final_decision is selected
DecisionSelects(df, filters, selection) ==
    LET others == apply_filters(df, [filters EXCEPT !.final_decision = {All}])
        Member(row) == row.final_decision \in selection
    IN  IF selection = {} \/ All \in selection
        THEN others
        ELSE SelectSeq(others, Member)

\* C18: the decision-set predicate imposes no constraint when the selection
\* is empty or contains "All", also with specific values beside it, and
\* otherwise keeps exactly the records whose final_decision is selected.
C18_DecisionSet ==
    /\ f_pc \in {"filtered", "refined"} =>
           f_out1 = DecisionSelects(f_df, f_A, f_A.final_decision)
    /\ f_pc = "refined" =>
           f_out2 = DecisionSelects(f_out1, f_B, f_B.final_decision)

\* "All" is selected together with a decision, and a record with another
\* decision is returned
C18_Witness ==
    /\ f_pc = "filtered"
    /\ All \in f_A.final_decision
    /\ f_A.final_decision # {All}
    /\ \E i \in 1..Len(f_out1) : f_out1[i].final_decision \notin f_A.final_decision

-----------------------------------------------------------------------------
(* Claims about search_text_fields *)

\* the strings among the values
StringsOf(values) == {v.s : v \in {w \in values : w.t = "str"}}

Entries(v) == IF IsList(v) THEN {v.l[i] : i \in 1..Len(v.l)} ELSE {}

\* the values under `key` of the entries that are mappings with that key
Under(entries, key) ==
    {e.d[key] : e \in {x \in entries : IsDict(x) /\ HasKey(x, key)}}

\* the texts of a record that the search scans
ScannedTexts(row) ==
    StringsOf({row.answer_text})
    \cup StringsOf(Entries(row.why))
    \cup StringsOf(Entries(row.findings))
    \cup StringsOf(Under(Entries(row.others), "text"))
    \cup StringsOf(Under(Entries(row.others), "reason"))

\* the term occurs in the text when upper and lower case are not told apart
OccursFolded(term, text) ==
    \E k \in 0..(Len(text) - Len(term)) :
        \A i \in 1..Len(term) : LowerSym(text[k + i]) = LowerSym(term[i])

\* C17: search_text_fields(record, term) is true if and only if the
\* lower-cased term is a substring of the lower-cased answer_text, of an
\* entry of why, of an entry of findings, or of the text or the reason of an
\* entry of others.
C17_SearchMatches ==
    s_pc = "returned" =>
        (s_ret <=> \E text \in ScannedTexts(s_row) : OccursFolded(s_term, text))

\* the record with others [{"text": "Foo BAR", "reason": ""}] and nothing
\* else that holds "bar" matches the term "bar"
C17_Witness ==
    /\ s_pc = "returned"
    /\ s_ret
    /\ s_term = <<"b", "a", "r">>
    /\ s_row.others = List(<<Dict([text |-> Str(FooBar), reason |-> EmptyStr])>>)
    /\ s_row.answer_text = Str(<<"F", "o", "o">>)
    /\ s_row.why = EmptyList
    /\ s_row.findings = EmptyList

\* C22: with the filters build_sidebar produces before a control is
\* touched, apply_filters returns every record of its input, in order.
C22_InitialFiltersKeepAll ==
    (f_pc = "filtered" /\ f_A = InitialFilters(f_df)) => f_out1 = f_df

\* what holds of C22: the same for the record sets whose question numbers
\* all parse as integers
C22_HoldsForIntegerNumbers ==
    (f_pc = "filtered" /\ f_A = InitialFilters(f_df) /\ AllParseAsInt(f_df))
        => f_out1 = f_df

\* a run of main has reached df.iloc[current_question_idx]
ReadsCurrentRecord == a_screen \in {"detail", "error"}

\* C23: in every state in which main reads the current record,
\* 0 <= current_question_idx <= N - 1 with N the number of records of the
\* active document, and the record read is one of that document.
C23_IndexInRange ==
    ReadsCurrentRecord =>
        /\ a_screen = "detail"
        /\ ~a_df.none
        /\ a_current_file \in DOMAIN a_files
        /\ a_df.rows = a_files[a_current_file].df
        /\ 0 <= a_idx
        /\ a_idx <= Len(a_df.rows) - 1

\* the last record of a document of several is read, beside a loaded
\* document with fewer records
C23_Witness ==
    /\ a_screen = "detail"
    /\ a_idx = Len(a_df.rows) - 1
    /\ a_idx > 0
    /\ \E name \in DOMAIN a_files : Len(a_files[name].df) <= a_idx

\* C24: whenever the active document changes, in the first state in which
\* the new document is displayed current_question_idx is 0, the active
\* record set is the one cached for the new file name, and the record read
\* is one of it.
C24_SwitchResets ==
    [][a_current_file' # a_current_file =>
           /\ a_current_file' \in DOMAIN a_files'
           /\ a_idx' = 0
           /\ a_df' = DataFrame(a_files'[a_current_file'].df)
           /\ a_screen' = "detail"]_vars

\* both files of DATA_DIR were loaded by the first run, which displays the
\* first of them, and the second has been selected since
C24_Witness ==
    /\ a_screen = "detail"
    /\ Len(a_dir) = 2
    /\ \A i \in 1..2 : a_dir[i].name \in DOMAIN a_files /\ GoodDocument(a_dir[i])
    /\ a_current_file = a_dir[2].name
    /\ a_idx = 0
    /\ a_df = DataFrame(a_files[a_current_file].df)

\* C28: while the session is not authenticated no document is loaded,
\* selected or displayed; authenticated becomes true only by a login
\* submission whose password is PASSWORD; once true it stays true.
C28_LoginGate ==
    /\ [](~a_authenticated =>
              /\ a_files = NoFiles
              /\ a_current_file = PyNone
              /\ a_df = NoFrame
              /\ a_tried = {}
              /\ a_screen = "login")
    /\ [][(~a_authenticated /\ a_authenticated') => a_password' = PASSWORD]_vars
    /\ [][a_authenticated => a_authenticated']_vars

\* another password has been submitted while DATA_DIR holds a good file:
\* the session is not authenticated and nothing is loaded
C28_Witness ==
    /\ ~a_authenticated
    /\ a_password \notin {PyNone, PASSWORD}
    /\ \E i \in 1..Len(a_dir) : GoodDocument(a_dir[i])
    /\ a_files = NoFiles

-----------------------------------------------------------------------------
(* Claims about export_to_markdown *)

Reported == f_pc = "reported"

SectionKind == "## {idx}. Question {question_no}"

\* the positions in the report of the lines that open a section
SectionStarts == {p \in 1..Len(e_md) : e_md[p].kind = SectionKind}

\* the k-th of them
SectionStart(k) ==
    CHOOSE p \in SectionStarts : Cardinality({q \in SectionStarts : q <= p}) = k

\* the lines of the k-th section: from its opening line to the line before
\* the next section, or to the end
SectionOf(k) ==
    LET first == SectionStart(k)
        last == IF k = Cardinality(SectionStarts) THEN Len(e_md)
                ELSE SectionStart(k + 1) - 1
    IN  SubSeq(e_md, first, last)

IsWhyLine(line) == line.kind = "{i}. {reason}"
IsOptionLine(line) == line.kind = "**Option {label}:** {text}"

\* the entries a record has in a list field
EntriesOf(v) == IF IsList(v) THEN v.l ELSE <<>>

TextUnder(entry, key) == IF HasKey(entry, key) THEN entry.d[key].s ELSE <<>>

\* C21: the report has exactly one section per record of the set, in its
\* order and numbered from 1, and the section of a record holds exactly the
\* first min(2, n) entries of its why list, numbered, and the first
\* min(2, m) entries of its others list, and no later entry.
C21_TwoEntriesPerSection ==
    Reported =>
        /\ Cardinality(SectionStarts) = Len(e_df)
        /\ \A k \in 1..Len(e_df) :
              LET section == SectionOf(k)
                  why == EntriesOf(e_df[k].why)
                  others == EntriesOf(e_df[k].others)
                  whyLines == SelectSeq(section, IsWhyLine)
                  optionLines == SelectSeq(section, IsOptionLine)
              IN  /\ section[1].n = k
                  /\ section[1].text = e_df[k].question_no.s
                  /\ Len(whyLines) = Min({2, Len(why)})
                  /\ \A i \in 1..Len(whyLines) :
                        whyLines[i].n = i /\ whyLines[i].text = why[i].s
                  /\ Len(optionLines) = Min({2, Len(others)})
                  /\ \A i \in 1..Len(optionLines) :
                        optionLines[i].more = TextUnder(others[i], "text")

\* a report of several records, the second with three why entries and
\* three others entries, of which its section holds the first two
C21_Witness ==
    /\ Reported
    /\ Len(e_df) > 1
    /\ Len(EntriesOf(e_df[2].why)) = 3
    /\ Len(EntriesOf(e_df[2].others)) = 3
    /\ Len(SelectSeq(SectionOf(2), IsWhyLine)) = 2
    /\ Len(SelectSeq(SectionOf(2), IsOptionLine)) = 2
    /\ Len(EntriesOf(e_df[1].others)) = 1

-----------------------------------------------------------------------------
(* Claims about render_table *)

PageSize == Len(PageOf(t_df, t_page_number, t_compact_mode))

\* page_number and selected_row_in_page point at a record of the set
InRange ==
    /\ 0 <= t_page_number
    /\ t_page_number <= total_pages(t_df, t_compact_mode) - 1
    /\ 0 <= t_selected_row_in_page
    /\ t_selected_row_in_page <= PageSize - 1

\* C25: after every run of render_table over a set that is not empty,
\* page_number is within [0, total_pages - 1] and selected_row_in_page
\* within [0, page_size - 1].
C25_PageAndRowInRange == Len(t_df) > 0 => InRange

\* what holds of C25: a press of a button over an unchanged set and mode
\* keeps both in range
C25_ButtonsKeepRange ==
    [][(InRange /\ t_df' = t_df /\ t_compact_mode' = t_compact_mode) => InRange']_vars

\* page_number * items_per_page + selected_row_in_page
GlobalPosition == t_page_number * items_per_page(t_compact_mode) + t_selected_row_in_page

\* C26: over a fixed set of N records and from an in-range page and row,
\* the next-question button adds exactly 1 to the global position unless
\* it is N - 1, and the previous-question button takes exactly 1 from it
\* unless it is 0; at those ends the position is unchanged.
C26_StepsByOne ==
    [][(InRange /\ t_df' = t_df /\ t_compact_mode' = t_compact_mode) =>
           /\ t_event' = "nav_next" =>
                 GlobalPosition' = IF GlobalPosition = Len(t_df) - 1
                                   THEN GlobalPosition
                                   ELSE GlobalPosition + 1
           /\ t_event' = "nav_prev" =>
                 GlobalPosition' = IF GlobalPosition = 0
                                   THEN GlobalPosition
                                   ELSE GlobalPosition - 1]_vars

\* the previous-question button has led from the only record of the last
\* page to the last record of the page before
C26_Witness ==
    /\ t_event = "nav_prev"
    /\ InRange
    /\ t_page_number = total_pages(t_df, t_compact_mode) - 2
    /\ t_selected_row_in_page = items_per_page(t_compact_mode) - 1
    /\ Len(PageOf(t_df, t_page_number + 1, t_compact_mode)) = 1

\* C27: render_table returns the index label of the record at the global
\* position page_number * items_per_page + selected_row_in_page of the set.
C27_ReturnsSelectedRecord ==
    (Len(t_df) > 0 /\ InRange) => t_ret = IndexLabel(t_df[GlobalPosition + 1].index)

DistinctQuestionNos(df) ==
    \A i, j \in 1..Len(df) : df[i].question_no = df[j].question_no => i = j

\* what holds of C27: the same for the sets in which no two records share
\* a question_no
C27_HoldsForDistinctNumbers ==
    (Len(t_df) > 0 /\ InRange /\ DistinctQuestionNos(t_df))
        => t_ret = IndexLabel(t_df[GlobalPosition + 1].index)

-----------------------------------------------------------------------------
(* Claims about the fields of the records *)

\* where each projected field comes from in the question
FieldPath(field) ==
    CASE field = "answer_label" -> <<"answer", "label">>
      [] field = "answer_text" -> <<"answer", "text">>
      [] field = "provided_key_label" -> <<"rethink", "provided_key", "label">>
      [] field = "final_decision" -> <<"rethink", "final_decision">>
      [] field = "illegible" -> <<"flags", "illegible">>
      [] field = "mixed_lang" -> <<"flags", "mixed_lang">>
      [] field = "has_images" -> <<"metadata", "input_metadata", "has_images">>
      [] OTHER -> <<field>>

ProjectedFields ==
    {"question_no", "depth", "answer_label", "answer_text", "provided_key_label",
     "final_decision", "illegible", "mixed_lang", "runner_up", "has_images",
     "why", "findings", "others"}

\* the depth of the document's defaults, the empty string without one
DefaultDepth(data) ==
    IF PathResolves(data, <<"defaults", "depth">>, 1)
    THEN ValueAtPath(data, <<"defaults", "depth">>, 1)
    ELSE EmptyStr

\* the documented default of a field
DocumentedDefault(data, field) ==
    CASE field \in {"illegible", "mixed_lang", "has_images"} -> Bool(FALSE)
      [] field \in {"why", "findings", "others"} -> EmptyList
      [] field = "depth" -> DefaultDepth(data)
      [] OTHER -> EmptyStr

Normalized == l_pc = "normalized" /\ ~l_norm.raised

\* C11: no projected field of a record is null, and a field that is missing
\* or null in the question holds its documented default.
C11_NoNullField ==
    Normalized =>
        \A i \in 1..Len(l_norm.df) : \A field \in ProjectedFields :
            /\ ~IsNull(l_norm.df[i][field])
            /\ ~PathResolves(QuestionsOf(l_data)[i], FieldPath(field), 1) =>
                   l_norm.df[i][field] = DocumentedDefault(l_data, field)

\* the questions in which no field read with q.get is null
NoNullTopLevel(q) == \A key \in DOMAIN q.d : ~IsNull(q.d[key])

\* what holds of C11: the same for the records of such questions
C11_HoldsWithoutTopLevelNull ==
    Normalized =>
        \A i \in 1..Len(l_norm.df) : \A field \in ProjectedFields :
            NoNullTopLevel(QuestionsOf(l_data)[i]) =>
                /\ ~IsNull(l_norm.df[i][field])
                /\ ~PathResolves(QuestionsOf(l_data)[i], FieldPath(field), 1) =>
                       l_norm.df[i][field] = DocumentedDefault(l_data, field)

\* the confidence of a question, Absent for a question without one
SourceConfidence(q) == IF HasKey(q, "confidence") THEN q.d["confidence"] ELSE Absent

\* a value that is no number and does not parse as one
NonNumeric(v) ==
    \/ v.t \in {"absent", "null", "list", "dict"}
    \/ v.t = "str" /\ ~IsDigits(v.s)

\* the document with the confidence of its i-th question taken out
WithoutConfidence(data, i) ==
    Dict([data.d EXCEPT !["questions"] =
              List([QuestionsOf(data) EXCEPT ![i] = Dict(Without(@.d, "confidence"))])])

\* C12: every record's confidence is a number, the source value when that
\* is a number and 0.0 when it is missing or not numeric; the record is
\* there, and its other fields are those it has without the confidence.
C12_ConfidenceCoerced ==
    Normalized =>
        /\ Len(l_norm.df) = Len(QuestionsOf(l_data))
        /\ \A i \in 1..Len(l_norm.df) :
              LET source == SourceConfidence(QuestionsOf(l_data)[i])
                  record == l_norm.df[i]
                  plain == normalize_questions(WithoutConfidence(l_data, i)).df[i]
              IN  /\ record.confidence \in Int
                  /\ source.t = "num" => record.confidence = source.n
                  /\ NonNumeric(source) => record.confidence = 0
                  /\ \A field \in DOMAIN record \ {"confidence", "raw"} :
                         record[field] = plain[field]

C12_Witness ==
    /\ Normalized
    /\ Len(l_norm.df) = 2
    /\ SourceConfidence(QuestionsOf(l_data)[1]) = Str(<<"bad">>)
    /\ SourceConfidence(QuestionsOf(l_data)[2]) = Num(95)
    /\ l_norm.df[1].confidence = 0
    /\ l_norm.df[2].confidence = 95

\* C20: a record's depth is the question's own depth when the question
\* carries one, and otherwise the depth of the document's defaults, the
\* empty string when the document has none.
C20_DepthFallback ==
    Normalized =>
        \A i \in 1..Len(l_norm.df) :
            LET q == QuestionsOf(l_data)[i]
            IN  l_norm.df[i].depth =
                    IF HasKey(q, "depth") THEN q.d["depth"] ELSE DefaultDepth(l_data)

C20_Witness ==
    /\ Normalized
    /\ Len(l_norm.df) = 2
    /\ HasKey(QuestionsOf(l_data)[1], "depth")
    /\ ~HasKey(QuestionsOf(l_data)[2], "depth")
    /\ l_norm.df[1].depth = Str(<<"basic">>)
    /\ l_norm.df[2].depth = Str(<<"deep">>)

-----------------------------------------------------------------------------
(* Claims about export_to_json *)

Exported == f_pc = "exported"

\* the list under the "questions" key of the exported text
ExportedQuestions == Loads(e_json).d["questions"].l

TotalExported == Loads(e_json).d["metadata"].d["total_exported"]

\* C13: the exported text holds one question object for every record of the
\* filtered set handed to export_to_json, in its order, and total_exported is
\* the number of its records.
C13_OneObjectPerRecord ==
    Exported =>
        /\ Len(ExportedQuestions) = Len(e_df)
        /\ \A i \in 1..Len(e_df) :
              i <= Len(ExportedQuestions) /\ ExportedQuestions[i] = e_df[i].raw
        /\ TotalExported = Num(Hundredths(Len(e_df)))

NoEmptyQuestion(df) == \A i \in 1..Len(df) : df[i].raw # EmptyDict

\* what holds of C13: the same for the record sets without a record of a
\* question that has no field
C13_HoldsForNonEmptyQuestions ==
    (Exported /\ NoEmptyQuestion(e_df)) =>
        /\ Len(ExportedQuestions) = Len(e_df)
        /\ \A i \in 1..Len(e_df) :
              i <= Len(ExportedQuestions) /\ ExportedQuestions[i] = e_df[i].raw
        /\ TotalExported = Num(Hundredths(Len(e_df)))

\* the question of the loaded document that a record projects
SourceQuestion(row) == QuestionsOf(e_data)[row.index + 1]

\* C14: the i-th object under the exported "questions" key is deep-equal to
\* the source question, in the loaded document, of the i-th filtered record.
C14_ExportIdentity ==
    Exported =>
        \A i \in 1..Len(ExportedQuestions) :
            i <= Len(e_df) /\ ExportedQuestions[i] = SourceQuestion(e_df[i])

\* what holds of C14: the same for the record sets without a record of a
\* question that has no field
C14_HoldsForNonEmptyQuestions ==
    (Exported /\ NoEmptyQuestion(e_df)) =>
        \A i \in 1..Len(ExportedQuestions) :
            i <= Len(e_df) /\ ExportedQuestions[i] = SourceQuestion(e_df[i])

====
